---------------------------- MODULE Spec2Model ----------------------------
(***************************************************************************)
(* Bumble: a bencode-like serialisation codec for Python values, with the  *)
(* radix-85 integer form of the earlier snapshot, the Huffman optimiser    *)
(* and the substring-substitution pass wired to the top-level entry point. *)
(*                                                                         *)
(* Bytes are naturals 0..255 and a byte string is a sequence of them.      *)
(* Indices into byte strings are Python's (0-based); Slice, Find and At    *)
(* translate them.  A Python value is a record whose tag names its type    *)
(* and whose other fields carry the payload; a set or a dict is held as    *)
(* the sequence of its entries in iteration order, because that order is   *)
(* what the encoder sees.  A function that can raise returns a record      *)
(* with ok = FALSE and the exception's name.                               *)
(***************************************************************************)
EXTENDS Integers, Sequences, FiniteSets, TLC

VARIABLES
    pc,        \* position of the run: which call has returned
    value,     \* codec run: the Python value handed to _encode
    raw,       \* codec run: what _encode returned
    result,    \* codec run: what _decode returned
    num,       \* integer run: the integer handed to _encode_int
    itext,     \* integer run: what _encode_int returned
    iresult,   \* integer run: what _decode_int returned
    stream,    \* optimiser run: the byte stream handed to the Huffman pass
    heap,      \* optimiser run: the priority queue of _build_huffman_tree
    merges,    \* optimiser run: iterations of the merge loop so far
    packed,    \* optimiser run: what deflate_bytes returned
    restored,  \* optimiser run: what inflate_bytes returned
    tvalue,    \* top-level run: the value handed to encode
    traw,      \* top-level run: the raw stream, encode's local `data`
    tout,      \* top-level run: what encode returned
    tstream,   \* top-level run: the stream decode is about to read
    tdecoded   \* top-level run: what decode returned

VARIABLES
    rmapping,  \* registry run: MODULE_MAPPING, as built at import
    rref,      \* registry run: the type reference handed to the encoder
    rshort,    \* registry run: the reference as the encoder writes it
    rlong      \* registry run: the reference as the decoder restores it

VARIABLES
    bvalue,   \* buffer run: the value whose encoding the buffer holds
    bprefix,  \* buffer run: the bytes before the encoding
    bsuffix,  \* buffer run: the bytes after the encoding
    bcut,     \* buffer run: how many bytes the encoding lost at its end
    bres,     \* buffer run: what _decode returned at the index after the prefix
    bdec      \* buffer run: what decode returned for the buffer

VARIABLES
    utext,    \* text run: the str handed to the encoder, as code points
    usuffix,  \* text run: the bytes that follow the encoded text
    uenc,     \* text run: what the encoder wrote for the text
    ubres,    \* text run: what decode_unicode returned on the bytes buffer
    usres     \* text run: what _decode_unicode returned on the str buffer

VARIABLES
    kcodecs,  \* pipeline run: the three codecs composed, by name
    kx,       \* pipeline run: the bytes handed to the composed codecs
    kvalue,   \* pipeline run: the value handed to the Pipeline
    kleft,    \* pipeline run: the Codec (a | b) | c
    kright,   \* pipeline run: the Codec a | (b | c)
    kenc,     \* pipeline run: what the encode of kleft and of kright returned
    kdec,     \* pipeline run: what the decode of kleft and of kright returned
    kout,     \* pipeline run: what Pipeline.encode returned
    kback     \* pipeline run: what Pipeline.decode returned

VARIABLES
    ovalue,  \* object run: the value handed to _encode of bumble/codec.py
    oenc,    \* object run: what _encode returned
    ores     \* object run: what _decode returned for it, value and cursor

vars == <<pc, value, raw, result, num, itext, iresult,
          stream, heap, merges, packed, restored,
          tvalue, traw, tout, tstream, tdecoded,
          rmapping, rref, rshort, rlong,
          bvalue, bprefix, bsuffix, bcut, bres, bdec,
          utext, usuffix, uenc, ubres, usres,
          kcodecs, kx, kvalue, kleft, kright, kenc, kdec, kout, kback,
          ovalue, oenc, ores>>

codecVars == <<value, raw, result>>
intVars == <<num, itext, iresult>>
huffVars == <<stream, heap, merges, packed, restored>>
topVars == <<tvalue, traw, tout, tstream, tdecoded>>
regVars == <<rmapping, rref, rshort, rlong>>
bufVars == <<bvalue, bprefix, bsuffix, bcut, bres, bdec>>
textVars == <<utext, usuffix, uenc, ubres, usres>>
pipeVars == <<kcodecs, kx, kvalue, kleft, kright, kenc, kdec, kout, kback>>
objVars == <<ovalue, oenc, ores>>

(***************************************************************************)
(* Byte strings.                                                           *)
(***************************************************************************)

\* The byte of an ASCII character the codec writes or tests.
Ord(ch) ==
    CASE ch = "+" -> 43 [] ch = "-" -> 45 [] ch = "." -> 46 [] ch = "0" -> 48
      [] ch = "9" -> 57 [] ch = ":" -> 58 [] ch = "?" -> 63 [] ch = "A" -> 65
      [] ch = "B" -> 66 [] ch = "C" -> 67 [] ch = "D" -> 68 [] ch = "E" -> 69
      [] ch = "L" -> 76 [] ch = "M" -> 77 [] ch = "N" -> 78 [] ch = "S" -> 83
      [] ch = "T" -> 84 [] ch = "a" -> 97 [] ch = "b" -> 98 [] ch = "c" -> 99
      [] ch = "d" -> 100 [] ch = "e" -> 101 [] ch = "f" -> 102
      [] ch = "i" -> 105 [] ch = "l" -> 108 [] ch = "n" -> 110
      [] ch = "o" -> 111 [] ch = "s" -> 115 [] ch = "t" -> 116
      [] ch = "u" -> 117 [] ch = "x" -> 120 [] ch = "y" -> 121
      [] ch = "~" -> 126 [] ch = "_" -> 95 [] ch = "m" -> 109
      [] ch = "2" -> 50 [] ch = "4" -> 52 [] ch = "6" -> 54
      [] ch = "g" -> 103 [] ch = "h" -> 104 [] ch = "j" -> 106
      [] ch = "k" -> 107 [] ch = "p" -> 112 [] ch = "r" -> 114
      [] ch = "z" -> 122

\* b"..." of one character.
B(ch) == <<Ord(ch)>>

Min(a, b) == IF a < b THEN a ELSE b
Max(a, b) == IF a > b THEN a ELSE b

\* The value of K at v: v is computed once and named by K's parameter.
With(v, K(_)) == K(v)

\* data[i:j] of Python, for 0 <= i and 0 <= j (out-of-range ends are clamped).
Slice(data, i, j) ==
    LET lo == Min(i, Len(data))
        hi == Min(j, Len(data))
    IN  IF hi <= lo THEN <<>> ELSE SubSeq(data, lo + 1, hi)

\* data[i:i + 1] of Python.
At(data, i) == Slice(data, i, i + 1)

\* data.startswith-style test used by the decoder: data[index:index+len(seq)] == seq.
StartsWith(data, index, seq) == Slice(data, index, index + Len(seq)) = seq

\* data.index(byte, start): the first position >= start holding byte, or -1
\* where Python raises ValueError.
RECURSIVE Find(_, _, _)
Find(data, byte, start) ==
    IF start >= Len(data) THEN -1
    ELSE IF data[start + 1] = byte THEN start
    ELSE Find(data, byte, start + 1)

\* b"".join(parts).
RECURSIVE Join(_)
Join(parts) == IF parts = <<>> THEN <<>> ELSE Head(parts) \o Join(Tail(parts))

IsDigitByte(b) == b >= Ord("0") /\ b <= Ord("9")

\* bytes.isdigit() / str.isdigit() on ASCII text: non-empty and all digits.
IsDigit(text) == text # <<>> /\ \A k \in 1..Len(text) : IsDigitByte(text[k])

\* str(n) for n >= 0.
RECURSIVE NatText(_)
NatText(n) ==
    IF n < 10 THEN <<Ord("0") + n>>
    ELSE NatText(n \div 10) \o <<Ord("0") + (n % 10)>>

\* str(n) for an int n, the text an f-string writes.
IntText(n) == IF n < 0 THEN B("-") \o NatText(0 - n) ELSE NatText(n)

\* int(text) for a run of ASCII digits.
RECURSIVE DigitsValue(_)
DigitsValue(text) ==
    IF text = <<>> THEN 0
    ELSE 10 * DigitsValue(SubSeq(text, 1, Len(text) - 1)) + (text[Len(text)] - Ord("0"))

\* int(text) of Python for ASCII text: an optional sign and digits, else ValueError.
ParseInt(text) ==
    LET signed == text # <<>> /\ text[1] \in {Ord("-"), Ord("+")}
        body == IF signed THEN Tail(text) ELSE text
    IN  IF ~IsDigit(body) THEN [ok |-> FALSE, err |-> "ValueError"]
        ELSE [ok |-> TRUE,
              int |-> IF signed /\ text[1] = Ord("-") THEN 0 - DigitsValue(body)
                      ELSE DigitsValue(body)]

(***************************************************************************)
(* Python values.                                                          *)
(***************************************************************************)

\* A float is its kind ("fin", "inf", "ninf", "nan") and, when finite, its
\* value in tenths: the finite floats of the model are the m/10.
Flt(kind, m) == [fk |-> kind, fm |-> m]

VNone == [tag |-> "none"]
VBool(b) == [tag |-> "bool", b |-> b]
VInt(n) == [tag |-> "int", i |-> n]
VFloat(kind, m) == [tag |-> "float", f |-> Flt(kind, m)]
\* The finite float m * 10^x that is not among the tenths of the model; the
\* decimal digits of m are the digits of its shortest repr (m has no
\* trailing zero).
FltExp(m, x) == [fk |-> "exp", fm |-> m, fx |-> x]
VComplex(re, im) == [tag |-> "complex", re |-> re, im |-> im]
VBytes(bs) == [tag |-> "bytes", bs |-> bs]
\* A str is the sequence of its code points.
VStr(cps) == [tag |-> "str", cps |-> cps]
VList(items) == [tag |-> "list", items |-> items]
VTuple(items) == [tag |-> "tuple", items |-> items]
\* A set: its elements in iteration order.
VSet(items) == [tag |-> "set", elems |-> items]
\* A dict: its (key, value) entries, each a pair <<k, v>>, in insertion order.
VDict(pairs) == [tag |-> "dict", pairs |-> pairs]
\* A namedtuple instance: class name, field names in declared order, values.
VNamed(name, fields, items) ==
    [tag |-> "namedtuple", cls |-> name, fields |-> fields, vals |-> items]
VArray(code, items) == [tag |-> "array", typecode |-> code, arr |-> items]
VEnum(path, name) == [tag |-> "enum", epath |-> path, member |-> name]
\* An instance of another class: its import path and its __dict__ entries.
VObject(path, attrs) == [tag |-> "object", opath |-> path, attrs |-> attrs]
VType(module, name) == [tag |-> "type", module |-> module, qualname |-> name]

\* str.encode(): UTF-8, for code points below 0x800.
RECURSIVE Utf8(_)
Utf8(cps) ==
    IF cps = <<>> THEN <<>>
    ELSE LET c == Head(cps)
         IN  (IF c < 128 THEN <<c>>
              ELSE <<192 + (c \div 64), 128 + (c % 64)>>) \o Utf8(Tail(cps))

\* bytes.decode(): the code points, or failure on bytes that are not UTF-8
\* (a lone continuation byte, a truncated or overlong two-byte form, a lead
\* byte of a longer form).
RECURSIVE Utf8Decode(_)
Utf8Decode(bs) ==
    IF bs = <<>> THEN [ok |-> TRUE, cps |-> <<>>]
    ELSE LET b == Head(bs)
         IN  IF b < 128
             THEN LET rest == Utf8Decode(Tail(bs))
                  IN  IF rest.ok THEN [ok |-> TRUE, cps |-> <<b>> \o rest.cps]
                      ELSE rest
             ELSE IF b >= 194 /\ b < 224 /\ Len(bs) >= 2
                     /\ bs[2] >= 128 /\ bs[2] < 192
             THEN LET rest == Utf8Decode(Tail(Tail(bs)))
                  IN  IF rest.ok
                      THEN [ok |-> TRUE,
                            cps |-> <<(b - 192) * 64 + (bs[2] - 128)>> \o rest.cps]
                      ELSE rest
             ELSE [ok |-> FALSE, err |-> "UnicodeDecodeError"]

(***************************************************************************)
(* Python's == and < on values, as sorted() uses them.                     *)
(***************************************************************************)

IsNumber(v) == v.tag \in {"int", "bool", "float"}

\* A number as a float record in tenths (bool is an int subclass).
NumKey(v) ==
    CASE v.tag = "int" -> Flt("fin", 10 * v.i)
      [] v.tag = "bool" -> Flt("fin", IF v.b THEN 10 ELSE 0)
      [] v.tag = "float" -> v.f

\* x < y on numbers: every comparison with NaN is False.
NumLt(x, y) ==
    IF x.fk = "nan" \/ y.fk = "nan" THEN FALSE
    ELSE IF x.fk = "ninf" THEN y.fk # "ninf"
    ELSE IF x.fk = "inf" THEN FALSE
    ELSE IF y.fk = "inf" THEN TRUE
    ELSE IF y.fk = "ninf" THEN FALSE
    ELSE x.fm < y.fm

NumEq(x, y) ==
    IF x.fk = "nan" \/ y.fk = "nan" THEN FALSE
    ELSE IF x.fk = "fin" /\ y.fk = "fin" THEN x.fm = y.fm
    ELSE x.fk = y.fk

\* Lexicographic < on two sequences of naturals (bytes, code points).
RECURSIVE SeqLt(_, _)
SeqLt(a, b) ==
    IF b = <<>> THEN FALSE
    ELSE IF a = <<>> THEN TRUE
    ELSE IF Head(a) # Head(b) THEN Head(a) < Head(b)
    ELSE SeqLt(Tail(a), Tail(b))

\* a == b of Python for two distinct objects.
RECURSIVE PyEq(_, _)
PyEq(a, b) ==
    IF IsNumber(a) /\ IsNumber(b) THEN NumEq(NumKey(a), NumKey(b))
    ELSE IF a.tag # b.tag THEN FALSE
    ELSE IF a.tag \in {"tuple", "list"}
    THEN Len(a.items) = Len(b.items)
         /\ \A k \in 1..Len(a.items) : PyEq(a.items[k], b.items[k])
    ELSE a = b

\* a < b of Python: "T", "F", or "E" where Python raises TypeError.
RECURSIVE PyLt(_, _)
PyLt(a, b) ==
    IF IsNumber(a) /\ IsNumber(b)
    THEN IF NumLt(NumKey(a), NumKey(b)) THEN "T" ELSE "F"
    ELSE IF a.tag # b.tag THEN "E"
    ELSE IF a.tag = "str" THEN IF SeqLt(a.cps, b.cps) THEN "T" ELSE "F"
    ELSE IF a.tag = "bytes" THEN IF SeqLt(a.bs, b.bs) THEN "T" ELSE "F"
    ELSE IF a.tag \in {"tuple", "list"}
    THEN LET n == Min(Len(a.items), Len(b.items))
             diff == {k \in 1..n : ~PyEq(a.items[k], b.items[k])}
         IN  IF diff = {}
             THEN IF Len(a.items) < Len(b.items) THEN "T" ELSE "F"
             ELSE LET k == CHOOSE k \in diff : \A j \in diff : k <= j
                  IN  PyLt(a.items[k], b.items[k])
    ELSE "E"

\* The leading run list.sort() looks for: its length and whether it is
\* strictly descending (then it is reversed in place).  k is the length of
\* the run so far; -1 stands for a comparison that raised.
RECURSIVE RunLen(_, _, _)
RunLen(a, k, desc) ==
    IF k >= Len(a) THEN k
    ELSE LET c == PyLt(a[k + 1], a[k])
         IN  IF c = "E" THEN -1
             ELSE IF (c = "T") = desc THEN RunLen(a, k + 1, desc)
             ELSE k

Reverse(a) == [k \in 1..Len(a) |-> a[Len(a) + 1 - k]]

\* The binary search of binarysort: where pivot goes in the sorted a[l+1..r]
\* (0-based l, r); -1 for a comparison that raised.
RECURSIVE BinPos(_, _, _, _)
BinPos(a, pivot, l, r) ==
    IF l >= r THEN l
    ELSE LET p == l + ((r - l) \div 2)
             c == PyLt(pivot, a[p + 1])
         IN  IF c = "E" THEN -1
             ELSE IF c = "T" THEN BinPos(a, pivot, l, p)
             ELSE BinPos(a, pivot, p + 1, r)

\* binarysort: a[1..start] is sorted, insert the rest one by one.
RECURSIVE BinSort(_, _)
BinSort(a, start) ==
    IF start >= Len(a) THEN [ok |-> TRUE, seq |-> a]
    ELSE LET pivot == a[start + 1]
             pos == BinPos(a, pivot, 0, start)
         IN  IF pos = -1 THEN [ok |-> FALSE, err |-> "TypeError"]
             ELSE BinSort(SubSeq(a, 1, pos) \o <<pivot>>
                          \o SubSeq(a, pos + 1, start)
                          \o SubSeq(a, start + 2, Len(a)), start + 1)

\* sorted(xs) of a short list (below 64 items list.sort() is count_run, then
\* binary insertion): the sorted sequence, or TypeError.
sorted(xs) ==
    IF Len(xs) < 2 THEN [ok |-> TRUE, seq |-> xs]
    ELSE LET first == PyLt(xs[2], xs[1])
         IN  IF first = "E" THEN [ok |-> FALSE, err |-> "TypeError"]
             ELSE LET desc == first = "T"
                      n == RunLen(xs, 2, desc)
                  IN  IF n = -1 THEN [ok |-> FALSE, err |-> "TypeError"]
                      ELSE BinSort((IF desc THEN Reverse(SubSeq(xs, 1, n))
                                    ELSE SubSeq(xs, 1, n))
                                   \o SubSeq(xs, n + 1, Len(xs)), n)

(***************************************************************************)
(* The encoder (bumble_bencoding/codec/encoder.py).                        *)
(***************************************************************************)

Ok(out) == [ok |-> TRUE, out |-> out]
Err(e) == [ok |-> FALSE, err |-> e]

\* Two results in a row: the first failure, or the outputs joined.
Cat(r1, r2) == IF ~r1.ok THEN r1 ELSE IF ~r2.ok THEN r2 ELSE Ok(r1.out \o r2.out)

\* str(x) of a finite float m/10, which Decimal(str(x)) renders unchanged.
FloatText(m) ==
    LET a == IF m < 0 THEN 0 - m ELSE m
    IN  (IF m < 0 THEN B("-") ELSE <<>>)
        \o NatText(a \div 10) \o B(".") \o NatText(a % 10)

\* "0" * n
Zeros(n) == [k \in 1..n |-> Ord("0")]

\* The digits of an exponent as float.__repr__ writes them: two at least.
ExpDigits(n) == IF n < 10 THEN B("0") \o NatText(n) ELSE NatText(n)

\* The text of float.__repr__ for the digits of a float and the place decpt
\* of its decimal point, counted from the first digit.
repr_digits(digits, decpt) ==
    IF decpt > 16 \/ decpt < -3
    THEN <<Head(digits)>>
         \o (IF Len(digits) > 1 THEN B(".") \o Tail(digits) ELSE <<>>)
         \o B("e") \o (IF decpt - 1 < 0 THEN B("-") ELSE B("+"))
         \o ExpDigits(IF decpt - 1 < 0 THEN 1 - decpt ELSE decpt - 1)
    ELSE IF decpt <= 0
    THEN B("0") \o B(".") \o Zeros(0 - decpt) \o digits
    ELSE IF decpt >= Len(digits)
    THEN digits \o Zeros(decpt - Len(digits)) \o B(".") \o B("0")
    ELSE SubSeq(digits, 1, decpt) \o B(".") \o SubSeq(digits, decpt + 1, Len(digits))

\* str(x) of a finite float: the shortest digits that give x back, in
\* exponent form when the decimal point would stand more than 16 places
\* after or more than 3 places before the first digit.
float_repr(f) ==
    IF f.fk = "fin" THEN FloatText(f.fm)
    ELSE With(NatText(IF f.fm < 0 THEN 0 - f.fm ELSE f.fm), LAMBDA digits :
             (IF f.fm < 0 THEN B("-") ELSE <<>>)
             \o repr_digits(digits, Len(digits) + f.fx))

\* str(int(text)) for a run of digits: the leading zeros dropped.
RECURSIVE StripLeadingZeros(_)
StripLeadingZeros(digits) ==
    IF Len(digits) > 1 /\ Head(digits) = Ord("0") THEN StripLeadingZeros(Tail(digits))
    ELSE digits

\* The Decimal of a sign, the digits before and after the point, and the
\* parsed exponent; the failure when these are not a number.
decimal_of(sign, intpart, fracpart, exponent) ==
    IF /\ intpart \o fracpart # <<>>
       /\ \A k \in 1..Len(intpart) : IsDigitByte(intpart[k])
       /\ \A k \in 1..Len(fracpart) : IsDigitByte(fracpart[k])
       /\ exponent.ok
    THEN [ok |-> TRUE, sign |-> sign,
          digits |-> StripLeadingZeros(intpart \o fracpart),
          exp |-> exponent.int - Len(fracpart)]
    ELSE [ok |-> FALSE, err |-> "InvalidOperation"]

\* The Decimal of a sign, a mantissa text and the parsed exponent.
decimal_of_mantissa(sign, mantissa, exponent) ==
    With(Find(mantissa, Ord("."), 0), LAMBDA dot :
        IF dot = -1 THEN decimal_of(sign, mantissa, <<>>, exponent)
        ELSE decimal_of(sign, Slice(mantissa, 0, dot),
                        Slice(mantissa, dot + 1, Len(mantissa)), exponent))

\* The Decimal of a sign and the text after it.
decimal_of_body(sign, body) ==
    With(IF Find(body, Ord("E"), 0) # -1 THEN Find(body, Ord("E"), 0)
         ELSE Find(body, Ord("e"), 0), LAMBDA epos :
        IF epos = -1 THEN decimal_of_mantissa(sign, body, [ok |-> TRUE, int |-> 0])
        ELSE decimal_of_mantissa(sign, Slice(body, 0, epos),
                                 ParseInt(Slice(body, epos + 1, Len(body)))))

\* decimal.Decimal(text) for the text of a finite number: sign, coefficient
\* digits and exponent, or the failure on text that is no number.
Decimal(text) ==
    IF text # <<>> /\ text[1] \in {Ord("-"), Ord("+")}
    THEN decimal_of_body(IF text[1] = Ord("-") THEN 1 ELSE 0, Tail(text))
    ELSE decimal_of_body(0, text)

\* Decimal.__str__ for a coefficient of leftdigits digits before the point
\* of the plain form, written with dotplace digits before the point and the
\* exponent, if any, after the marker.
decimal_format(d, leftdigits, dotplace, marker) ==
    (IF d.sign = 1 THEN B("-") ELSE <<>>)
    \o (IF dotplace <= 0 THEN B("0") \o B(".") \o Zeros(0 - dotplace) \o d.digits
        ELSE IF dotplace >= Len(d.digits)
        THEN d.digits \o Zeros(dotplace - Len(d.digits))
        ELSE SubSeq(d.digits, 1, dotplace) \o B(".")
             \o SubSeq(d.digits, dotplace + 1, Len(d.digits)))
    \o (IF leftdigits = dotplace THEN <<>>
        ELSE marker \o (IF leftdigits - dotplace < 0 THEN B("-") ELSE B("+"))
             \o NatText(IF leftdigits - dotplace < 0 THEN dotplace - leftdigits
                        ELSE leftdigits - dotplace))

\* A Decimal.__str__ that writes the exponent with a lowercase e.
decimal_str_lower_e(d) ==
    With(d.exp + Len(d.digits), LAMBDA leftdigits :
        decimal_format(d, leftdigits,
                       IF d.exp <= 0 /\ leftdigits > -6 THEN leftdigits ELSE 1,
                       B("e")))

\* str(d) of a finite Decimal: plain when the exponent is not positive and
\* the first digit stands fewer than 6 places after the point, else
\* scientific with one digit before the point and E, sign, exponent.
decimal_str(d) ==
    With(d.exp + Len(d.digits), LAMBDA leftdigits :
        decimal_format(d, leftdigits,
                       IF d.exp <= 0 /\ leftdigits > -6 THEN leftdigits ELSE 1,
                       B("E")))

encode_int(data) == B("i") \o IntText(data) \o B("e")

encode_float(data) ==
    IF data.fk = "inf" THEN B("f") \o B("+") \o B("e")
    ELSE IF data.fk = "ninf" THEN B("f") \o B("-") \o B("e")
    ELSE IF data.fk = "nan" THEN B("f") \o B("?") \o B("e")
    ELSE B("f") \o decimal_str(Decimal(float_repr(data))) \o B("e")

encode_complex(data) ==
    B("c") \o encode_float(data.re) \o encode_float(data.im) \o B("e")

encode_bytes(data) == NatText(Len(data)) \o B(":") \o data

encode_unicode(data) ==
    LET encoded_data == Utf8(data)
    IN  B("u") \o NatText(Len(encoded_data)) \o B(":") \o encoded_data

RECURSIVE _encode(_)

\* b"".join(encode(item) for item in items).
RECURSIVE encode_items(_)
encode_items(items) ==
    IF items = <<>> THEN Ok(<<>>)
    ELSE Cat(_encode(Head(items)), encode_items(Tail(items)))

encode_list(data) ==
    IF data = <<>> THEN Ok(B("L"))
    ELSE Cat(Ok(B("l")), Cat(encode_items(data), Ok(B("e"))))

\* b"".join(encode(key) + encode(value) for key, value in items), the items
\* being the (key, value) tuples sorted() returned.
RECURSIVE encode_pairs(_)
encode_pairs(items) ==
    IF items = <<>> THEN Ok(<<>>)
    ELSE Cat(Cat(_encode(Head(items).items[1]), _encode(Head(items).items[2])),
             encode_pairs(Tail(items)))

\* data.items(): the entries as tuples, in insertion order.
dict_items(pairs) == [k \in 1..Len(pairs) |-> VTuple(pairs[k])]

\* The order in which encode_dict walks data.items().
dict_order(items) == sorted(items)

encode_dict(data) ==
    IF data = <<>> THEN Ok(B("D"))
    ELSE LET ordered == dict_order(dict_items(data))
         IN  IF ~ordered.ok THEN Err(ordered.err)
             ELSE Cat(Ok(B("d")), Cat(encode_pairs(ordered.seq), Ok(B("e"))))

\* A walk of the set in the order it happens to hold its items, unsorted.
set_order_unsorted(elems) == [ok |-> TRUE, seq |-> elems]

\* The order in which encode_set walks the set.
set_order(elems) == sorted(elems)

encode_set(data) ==
    IF data = <<>> THEN Ok(B("S"))
    ELSE LET ordered == set_order(data)
         IN  IF ~ordered.ok THEN Err(ordered.err)
             ELSE Cat(Ok(B("s")), Cat(encode_items(ordered.seq), Ok(B("e"))))

encode_tuple(data) ==
    IF data = <<>> THEN Ok(B("T"))
    ELSE Cat(Ok(B("t")), Cat(encode_items(data), Ok(B("e"))))

\* data._asdict(): field name -> value, in declared order.
asdict(data) == [k \in 1..Len(data.fields) |-> <<VStr(data.fields[k]), data.vals[k]>>]

encode_named_tuple(data) ==
    Cat(Ok(B("n") \o B("t") \o encode_unicode(data.cls)),
        Cat(encode_dict(asdict(data)), Ok(B("e"))))

encode_array(data) ==
    Cat(Ok(B("a") \o <<data.typecode>>), _encode(VList(data.arr)))

encode_object(data) ==
    Cat(Ok(B("o") \o encode_unicode(data.opath)), encode_dict(data.attrs))

encode_enum(data) ==
    B("e") \o encode_unicode(data.epath) \o encode_unicode(data.member)

encode_type(data) ==
    B("y") \o encode_unicode(data.module) \o encode_unicode(data.qualname)

_encode(data) ==
    CASE data.tag = "type" -> Ok(encode_type(data))
      [] data.tag = "enum" -> Ok(encode_enum(data))
      [] data.tag = "array" -> encode_array(data)
      [] data.tag = "bool" -> Ok(IF data.b THEN B("+") ELSE B("-"))
      [] data.tag = "complex" -> Ok(encode_complex(data))
      [] data.tag = "int" -> Ok(encode_int(data.i))
      [] data.tag = "float" -> Ok(encode_float(data.f))
      [] data.tag = "bytes" -> Ok(encode_bytes(data.bs))
      [] data.tag = "str" -> Ok(encode_unicode(data.cps))
      [] data.tag = "list" -> encode_list(data.items)
      [] data.tag = "dict" -> encode_dict(data.pairs)
      [] data.tag = "set" -> encode_set(data.elems)
      [] data.tag = "namedtuple" -> encode_named_tuple(data)
      [] data.tag = "tuple" -> encode_tuple(data.items)
      [] data.tag = "none" -> Ok(B("n"))
      [] data.tag = "object" -> encode_object(data)

(***************************************************************************)
(* The decoder (bumble_bencoding/codec/decoder.py).                        *)
(***************************************************************************)

DOk(v, i) == [ok |-> TRUE, val |-> v, idx |-> i]
DErr(e) == [ok |-> FALSE, err |-> e]

\* Code points of the names the runs use: module "M", enum class "E" with
\* members "A" and "B", plain class "C", namedtuple class "N".
PathE == <<Ord("M"), Ord("."), Ord("E")>>
PathC == <<Ord("M"), Ord("."), Ord("C")>>
NameA == <<Ord("A")>>
NameB == <<Ord("B")>>
NameM == <<Ord("M")>>
NameE == <<Ord("E")>>
NameN == <<Ord("N")>>

\* importlib.import_module(module) and getattr(module, class_name) on the
\* dotted import_path: what the host environment holds.  The classes of the
\* runs live in module M; anything else is not importable.
import_class(import_path) ==
    IF import_path = PathE
    THEN [ok |-> TRUE, kind |-> "enum", members |-> {NameA, NameB}]
    ELSE IF import_path = PathC
    THEN [ok |-> TRUE, kind |-> "class", members |-> {}]
    ELSE IF Find(import_path, Ord("."), 0) = -1
    THEN [ok |-> FALSE, err |-> "ValueError"]
    ELSE [ok |-> FALSE, err |-> "ModuleNotFoundError"]

\* The digits of a coefficient without its trailing zeros.
RECURSIVE StripTrailingZeros(_)
StripTrailingZeros(digits) ==
    IF Len(digits) > 1 /\ digits[Len(digits)] = Ord("0")
    THEN StripTrailingZeros(SubSeq(digits, 1, Len(digits) - 1))
    ELSE digits

RECURSIVE Pow10(_)
Pow10(n) == IF n = 0 THEN 1 ELSE 10 * Pow10(n - 1)

\* Most digits of a float written in tenths as an integer.
TenthsDigits == 8

\* The float of a sign, the digits of a coefficient without trailing zeros
\* and the exponent that goes with them.
float_of(sign, digits, x) ==
    IF digits = B("0") THEN Flt("fin", 0)
    ELSE IF x >= -1 /\ Len(digits) + x + 1 <= TenthsDigits
    THEN Flt("fin", (IF sign = 1 THEN 0 - DigitsValue(digits) ELSE DigitsValue(digits))
                    * Pow10(x + 1))
    ELSE FltExp(IF sign = 1 THEN 0 - DigitsValue(digits) ELSE DigitsValue(digits), x)

\* float(d) of a finite Decimal of few digits: the float of that decimal
\* value, as tenths when it is a whole number of tenths of few digits.
decimal_float(d) ==
    With(StripTrailingZeros(d.digits), LAMBDA digits :
        float_of(d.sign, digits, d.exp + (Len(d.digits) - Len(digits))))

\* float(decimal.Decimal(float_str))
ParseDecimal(text) ==
    With(Decimal(text), LAMBDA d :
        IF ~d.ok THEN d ELSE [ok |-> TRUE, f |-> decimal_float(d)])

decode_int(data, index) ==
    With(Find(data, Ord("e"), index), LAMBDA end_index :
        IF end_index = -1 THEN DErr("ValueError")
        ELSE With(ParseInt(Slice(data, index + 1, end_index)), LAMBDA n :
                 IF ~n.ok THEN DErr(n.err)
                 ELSE DOk(VInt(n.int), end_index + 1)))

\* The (float, index) pair of decode_float; the float is a Flt record.
decode_float(data, index) ==
    With(Find(data, Ord("e"), index), LAMBDA end_index :
        IF end_index = -1 THEN DErr("ValueError")
        ELSE With(Slice(data, index + 1, end_index), LAMBDA float_str :
                 IF float_str = B("+") THEN DOk(Flt("inf", 0), end_index + 1)
                 ELSE IF float_str = B("-") THEN DOk(Flt("ninf", 0), end_index + 1)
                 ELSE IF float_str = B("?") THEN DOk(Flt("nan", 0), end_index + 1)
                 ELSE With(ParseDecimal(float_str), LAMBDA d :
                          IF ~d.ok THEN DErr(d.err)
                          ELSE DOk(d.f, end_index + 1))))

decode_complex(data, index) ==
    With(decode_float(data, index + 1), LAMBDA real :
        IF ~real.ok THEN real
        ELSE With(decode_float(data, real.idx), LAMBDA imag :
                 IF ~imag.ok THEN imag
                 ELSE DOk(VComplex(real.val, imag.val), imag.idx)))

decode_bytes(data, index) ==
    With(Find(data, Ord(":"), index), LAMBDA colon_index :
        IF colon_index = -1 THEN DErr("ValueError")
        ELSE With(ParseInt(Slice(data, index, colon_index)), LAMBDA length :
                 IF ~length.ok THEN DErr(length.err)
                 ELSE LET start == colon_index + 1
                          end == start + length.int
                      IN  DOk(VBytes(Slice(data, start, Max(end, 0))), end)))

decode_unicode(data, index) ==
    With(Find(data, Ord(":"), index), LAMBDA colon_index :
        IF colon_index = -1 THEN DErr("ValueError")
        ELSE With(ParseInt(Slice(data, index + 1, colon_index)), LAMBDA length :
                 IF ~length.ok THEN DErr(length.err)
                 ELSE LET start == colon_index + 1
                          end == start + length.int
                      IN  With(Utf8Decode(Slice(data, start, Max(end, 0))),
                               LAMBDA decoded_str :
                                   IF ~decoded_str.ok THEN DErr(decoded_str.err)
                                   ELSE DOk(VStr(decoded_str.cps), end))))

\* hash(v) succeeds: what a dict key or a set element must allow.
RECURSIVE Hashable(_)
Hashable(v) ==
    IF v.tag \in {"list", "dict", "set", "array"} THEN FALSE
    ELSE IF v.tag = "tuple" THEN \A k \in 1..Len(v.items) : Hashable(v.items[k])
    ELSE IF v.tag = "namedtuple" THEN \A k \in 1..Len(v.vals) : Hashable(v.vals[k])
    ELSE TRUE

\* result[key] = value on the entries of a dict.
dict_setitem(pairs, key, val) ==
    IF \E k \in 1..Len(pairs) : PyEq(pairs[k][1], key)
    THEN [k \in 1..Len(pairs) |->
             IF PyEq(pairs[k][1], key) THEN <<pairs[k][1], val>> ELSE pairs[k]]
    ELSE Append(pairs, <<key, val>>)

\* result.add(item) on the elements of a set.
set_add(elems, item) ==
    IF \E k \in 1..Len(elems) : PyEq(elems[k], item) THEN elems
    ELSE Append(elems, item)

\* An initializer that starts a list for the empty-tuple tag as well.
initialize_collection_no_tuple(type_char) ==
    IF type_char \in {B("l"), B("L"), B("t"), B("T")} THEN "list"
    ELSE IF type_char \in {B("d"), B("D")} THEN "dict"
    ELSE IF type_char \in {B("s"), B("S")} THEN "set"
    ELSE ""

\* The empty list, dict, set or tuple of a type character, as the kind of
\* container; "" where initialize_collection raises ValueError.
initialize_collection(type_char) ==
    IF type_char \in {B("l"), B("L"), B("t")} THEN "list"
    ELSE IF type_char \in {B("d"), B("D")} THEN "dict"
    ELSE IF type_char \in {B("s"), B("S")} THEN "set"
    ELSE IF type_char = B("T") THEN "tuple"
    ELSE ""

\* The container value of a kind and its accumulated entries.
Container(kind, entries) ==
    CASE kind = "list" -> VList(entries)
      [] kind = "dict" -> VDict(entries)
      [] kind = "set" -> VSet(entries)
      [] kind = "tuple" -> VTuple(entries)

finalize_collection(kind, entries, type_char) ==
    IF type_char = B("t") THEN VTuple(entries) ELSE Container(kind, entries)

RECURSIVE _decode(_, _)

\* The while loop of decode_collection: entries decoded so far, cursor at index.
RECURSIVE collection_loop(_, _, _, _)
collection_loop(data, index, type_char, entries) ==
    IF At(data, index) = B("e") THEN DOk(entries, index)
    ELSE IF type_char = B("d")
    THEN With(_decode(data, index), LAMBDA key :
             IF ~key.ok THEN key
             ELSE With(_decode(data, key.idx), LAMBDA val :
                      IF ~val.ok THEN val
                      ELSE IF ~Hashable(key.val) THEN DErr("TypeError")
                      ELSE collection_loop(data, val.idx, type_char,
                                           dict_setitem(entries, key.val, val.val))))
    ELSE With(_decode(data, index), LAMBDA item :
             IF ~item.ok THEN item
             ELSE IF type_char = B("s")
             THEN IF ~Hashable(item.val) THEN DErr("TypeError")
                  ELSE collection_loop(data, item.idx, type_char,
                                       set_add(entries, item.val))
             ELSE collection_loop(data, item.idx, type_char,
                                  Append(entries, item.val)))

\* type_char in b"LDST": a bytes containment test, true of the empty slice too.
InLDST(type_char) == type_char \in {<<>>, B("L"), B("D"), B("S"), B("T")}

decode_collection(data, index, type_char) ==
    With(initialize_collection(type_char), LAMBDA kind :
        IF kind = "" THEN DErr("ValueError")
        ELSE IF InLDST(type_char) THEN DOk(Container(kind, <<>>), index + 1)
        ELSE With(collection_loop(data, index + 1, type_char, <<>>), LAMBDA body :
                 IF ~body.ok THEN body
                 ELSE DOk(finalize_collection(kind, body.val, type_char),
                          body.idx + 1)))

decode_array(data, index) ==
    With(At(data, index + 1), LAMBDA array_type :
        With(_decode(data, index + 2), LAMBDA array_data :
            IF ~array_data.ok THEN array_data
            ELSE IF array_type = <<>> \/ array_data.val.tag # "list"
            THEN DErr("TypeError")
            ELSE DOk(VArray(array_type[1], array_data.val.items), array_data.idx)))

decode_object(data, index) ==
    With(decode_unicode(data, index + 1), LAMBDA import_path :
        IF ~import_path.ok THEN import_path
        ELSE With(decode_collection(data, import_path.idx,
                                    At(data, import_path.idx)), LAMBDA attributes :
                 IF ~attributes.ok THEN attributes
                 ELSE With(import_class(import_path.val.cps), LAMBDA cls :
                          IF ~cls.ok THEN DErr(cls.err)
                          ELSE IF attributes.val.tag = "dict"
                          THEN DOk(VObject(import_path.val.cps,
                                           attributes.val.pairs), attributes.idx)
                          ELSE IF attributes.val \in {VList(<<>>), VSet(<<>>),
                                                      VTuple(<<>>)}
                          THEN DOk(VObject(import_path.val.cps, <<>>),
                                   attributes.idx)
                          ELSE DErr("TypeError"))))

decode_enum(data, index) ==
    With(decode_unicode(data, index + 1), LAMBDA import_path :
        IF ~import_path.ok THEN import_path
        ELSE With(decode_unicode(data, import_path.idx), LAMBDA name :
                 IF ~name.ok THEN name
                 ELSE With(import_class(import_path.val.cps), LAMBDA cls :
                          IF ~cls.ok THEN DErr(cls.err)
                          ELSE IF name.val.cps \notin cls.members
                          THEN DErr("KeyError")
                          ELSE DOk(VEnum(import_path.val.cps, name.val.cps),
                                   name.idx))))

decode_named_tuple(data, index) ==
    With(decode_unicode(data, index + 2), LAMBDA name :
        IF ~name.ok THEN name
        ELSE With(_decode(data, name.idx), LAMBDA fields :
                 IF ~fields.ok THEN fields
                 ELSE IF fields.val.tag # "dict" THEN DErr("AttributeError")
                 ELSE With(fields.val.pairs, LAMBDA pairs :
                          IF \E k \in 1..Len(pairs) : pairs[k][1].tag # "str"
                          THEN DErr("TypeError")
                          ELSE DOk(VNamed(name.val.cps,
                                          [k \in 1..Len(pairs) |-> pairs[k][1].cps],
                                          [k \in 1..Len(pairs) |-> pairs[k][2]]),
                                   fields.idx))))

decode_type(data, index) ==
    With(decode_unicode(data, index + 1), LAMBDA module :
        IF ~module.ok THEN module
        ELSE With(decode_unicode(data, module.idx), LAMBDA name :
                 IF ~name.ok THEN name
                 ELSE With(import_class(module.val.cps \o B(".") \o name.val.cps),
                           LAMBDA cls :
                               IF ~cls.ok THEN DErr(cls.err)
                               ELSE DOk(VType(module.val.cps, name.val.cps),
                                        name.idx))))

_decode(data, index) ==
    IF data = <<>> THEN DErr("BumbleDecodeException")
    ELSE IF IsDigit(At(data, index)) THEN decode_bytes(data, index)
    ELSE IF StartsWith(data, index, B("y")) THEN decode_type(data, index)
    ELSE IF StartsWith(data, index, B("n") \o B("t"))
    THEN decode_named_tuple(data, index)
    ELSE IF StartsWith(data, index, B("+")) \/ StartsWith(data, index, B("-"))
    THEN DOk(VBool(At(data, index) = B("+")), index + 1)
    ELSE IF StartsWith(data, index, B("i")) THEN decode_int(data, index)
    ELSE IF StartsWith(data, index, B("f"))
    THEN With(decode_float(data, index), LAMBDA number :
             IF number.ok THEN DOk([tag |-> "float", f |-> number.val], number.idx)
             ELSE number)
    ELSE IF StartsWith(data, index, B("c")) THEN decode_complex(data, index)
    ELSE IF StartsWith(data, index, B("u")) THEN decode_unicode(data, index)
    ELSE IF \E ch \in {"l", "d", "s", "t", "L", "D", "S", "T"} :
                StartsWith(data, index, B(ch))
    THEN decode_collection(data, index, At(data, index))
    ELSE IF StartsWith(data, index, B("o")) THEN decode_object(data, index)
    ELSE IF StartsWith(data, index, B("n")) THEN DOk(VNone, index + 1)
    ELSE IF StartsWith(data, index, B("a")) THEN decode_array(data, index)
    ELSE IF StartsWith(data, index, B("e")) THEN decode_enum(data, index)
    ELSE DErr("BumbleDecodeException")

(***************************************************************************)
(* The codec run: one value is encoded by _encode, and what it returned is *)
(* decoded by _decode from index 0 (the round trip of test.py, _test).     *)
(***************************************************************************)

\* Longest list, tuple, set or dict a run builds from the atoms.
MaxLen == 2
\* Deepest nesting of single-element lists a run builds.
MaxDepth == 4

NotRun == [ok |-> FALSE, err |-> "not run"]

\* Sequences over S of length at most n.
SeqsUpTo(S, n) == UNION {[1..k -> S] : k \in 0..n}

\* Values that are hashable and hold no other value.
Atoms ==
    {VNone, VBool(TRUE), VBool(FALSE), VInt(-1), VInt(2), VInt(10),
     VFloat("fin", 15), VFloat("fin", -5), VFloat("nan", 0),
     VFloat("inf", 0), VFloat("ninf", 0),
     VBytes(<<>>), VBytes(B("e")), VStr(<<>>), VStr(NameA), VStr(<<233>>),
     VComplex(Flt("fin", 10), Flt("nan", 0)), VEnum(PathE, NameA),
     VType(NameM, NameE), VTuple(<<>>), VTuple(<<VInt(2)>>)}

\* Keys of the dicts a run builds.
KeyAtoms ==
    {VInt(2), VInt(10), VFloat("fin", 15), VFloat("nan", 0),
     VStr(NameB), VStr(<<Ord("a"), Ord("a")>>), VBytes(B("e")), VNone}

\* No two entries of the sequence are equal under ==: what a set's elements
\* and a dict's keys are.
Distinct(xs) == \A j, k \in 1..Len(xs) : j # k => ~PyEq(xs[j], xs[k])

Lists == {VList(xs) : xs \in SeqsUpTo(Atoms \cup {VList(<<>>), VDict(<<>>), VSet(<<>>)}, MaxLen)}
Tuples == {VTuple(xs) : xs \in SeqsUpTo(Atoms, MaxLen)}
Sets == {VSet(xs) : xs \in {ys \in SeqsUpTo(Atoms, MaxLen) : Distinct(ys)}}
Dicts ==
    {VDict(ps) : ps \in {qs \in SeqsUpTo(KeyAtoms \X {VInt(0), VList(<<VNone>>)}, MaxLen) :
                            Distinct([k \in 1..Len(qs) |-> qs[k][1]])}}

\* [[...[x]...]]: x wrapped in depth single-element lists.
RECURSIVE Nest(_, _)
Nest(x, depth) == IF depth = 0 THEN x ELSE VList(<<Nest(x, depth - 1)>>)

Nested ==
    {Nest(x, d) : x \in {VInt(10), VEnum(PathE, NameB), VSet(<<VInt(2)>>)},
                  d \in 2..MaxDepth}
    \cup {VList(<<c, VInt(2)>>) :
            c \in {VDict(<< <<VStr(NameA), VTuple(<<VNone>>)>> >>),
                   VSet(<<VStr(NameB), VStr(NameA)>>),
                   VTuple(<<VList(<<VInt(2)>>), VNone>>)}}

FieldOrders == {<<>>, <<NameA>>, <<NameA, NameB>>, <<NameB, NameA>>}

NamedTuples ==
    {VNamed(NameN, fs, [k \in 1..Len(fs) |-> VInt(k)]) : fs \in FieldOrders}
    \cup {VList(<<VNamed(NameN, <<NameA>>, <<VInt(2)>>), VInt(10)>>)}

Arrays == {VArray(Ord("i"), xs) : xs \in SeqsUpTo({VInt(-1), VInt(2)}, MaxLen)}

Objects ==
    {VObject(PathC, [k \in 1..Len(fs) |-> <<VStr(fs[k]), VInt(k)>>]) : fs \in FieldOrders}
    \cup {VList(<<VObject(PathC, <<>>), VInt(2)>>)}

\* Finite floats from 1e-08 to -2.5e+23, on both sides of the bounds where
\* str(x) and str(Decimal) change to exponent form, alone and before
\* another item of a list.
ExpFloats ==
    UNION {{[tag |-> "float", f |-> FltExp(m, x)],
            VList(<<[tag |-> "float", f |-> FltExp(m, x)], VInt(2)>>)} :
           m \in {1, 15, 0 - 25}, x \in {-8, -6, -5, 8, 15, 16, 22}}
    \cup {VList(<<VFloat("ninf", 0), [tag |-> "float", f |-> FltExp(15, -8)]>>)}

Values == Atoms \cup Lists \cup Tuples \cup Sets \cup Dicts \cup Nested
          \cup NamedTuples \cup Arrays \cup Objects \cup ExpFloats

IntIdle == /\ num = 0 /\ itext = NotRun /\ iresult = NotRun
HuffIdle ==
    /\ stream = <<>> /\ heap = {} /\ merges = 0
    /\ packed = NotRun /\ restored = NotRun
TopIdle ==
    /\ tvalue = VNone /\ traw = NotRun /\ tout = NotRun
    /\ tstream = NotRun /\ tdecoded = NotRun
RegIdle ==
    /\ rmapping = <<>> /\ rref = <<>> /\ rshort = NotRun /\ rlong = NotRun
BufIdle ==
    /\ bvalue = VNone /\ bprefix = <<>> /\ bsuffix = <<>> /\ bcut = 0 /\ bres = NotRun /\ bdec = NotRun
TextIdle ==
    /\ utext = <<>> /\ usuffix = <<>> /\ uenc = NotRun /\ ubres = NotRun /\ usres = NotRun
PipeIdle ==
    /\ kcodecs = <<>> /\ kx = <<>> /\ kvalue = VNone /\ kleft = NotRun /\ kright = NotRun /\ kenc = NotRun /\ kdec = NotRun /\ kout = NotRun /\ kback = NotRun
ObjIdle ==
    /\ ovalue = VNone /\ oenc = NotRun /\ ores = NotRun
CodecIdle == /\ value = VNone /\ raw = NotRun /\ result = NotRun

InitCodec ==
    /\ pc = "start"
    /\ value \in Values
    /\ raw = NotRun
    /\ result = NotRun
    /\ IntIdle /\ HuffIdle /\ TopIdle /\ RegIdle /\ BufIdle /\ TextIdle /\ PipeIdle /\ ObjIdle

\* encoded_data = encoder(data)
Encode ==
    /\ pc = "start"
    /\ raw' = _encode(value)
    /\ pc' = "encoded"
    /\ UNCHANGED <<value, result, intVars, huffVars, topVars, regVars, bufVars, textVars, pipeVars, objVars>>

\* decoded_data = decoder(encoded_data); not reached when the encoder raised.
Decode ==
    /\ pc = "encoded"
    /\ raw.ok
    /\ result' = _decode(raw.out, 0)
    /\ pc' = "decoded"
    /\ UNCHANGED <<value, raw, intVars, huffVars, topVars, regVars, bufVars, textVars, pipeVars, objVars>>

NextCodec == Encode \/ Decode

SpecCodec == InitCodec /\ [][NextCodec]_vars

(***************************************************************************)
(* Properties of the codec run.                                            *)
(***************************************************************************)

\* decoded == original as the round trip means it: same type, same content,
\* sets and dicts compared without regard to order, NaN equal to NaN, and a
\* namedtuple compared as the tuple of its values.
RECURSIVE SameValue(_, _)
SameValue(a, b) ==
    IF a.tag # b.tag THEN FALSE
    ELSE CASE a.tag \in {"list", "tuple"} ->
                 /\ Len(a.items) = Len(b.items)
                 /\ \A k \in 1..Len(a.items) : SameValue(a.items[k], b.items[k])
           [] a.tag = "set" ->
                 /\ Len(a.elems) = Len(b.elems)
                 /\ \A j \in 1..Len(a.elems) :
                        \E k \in 1..Len(b.elems) : SameValue(a.elems[j], b.elems[k])
           [] a.tag = "dict" ->
                 /\ Len(a.pairs) = Len(b.pairs)
                 /\ \A j \in 1..Len(a.pairs) : \E k \in 1..Len(b.pairs) :
                        /\ SameValue(a.pairs[j][1], b.pairs[k][1])
                        /\ SameValue(a.pairs[j][2], b.pairs[k][2])
           [] a.tag = "namedtuple" ->
                 /\ Len(a.vals) = Len(b.vals)
                 /\ \A k \in 1..Len(a.vals) : SameValue(a.vals[k], b.vals[k])
           [] a.tag = "array" ->
                 a.typecode = b.typecode /\ SameValue(VList(a.arr), VList(b.arr))
           [] a.tag = "object" ->
                 a.opath = b.opath /\ SameValue(VDict(a.attrs), VDict(b.attrs))
           [] OTHER -> a = b

\* The orders in which the entries of xs can be laid out.
Arrangements(xs) ==
    {[k \in 1..Len(xs) |-> xs[f[k]]] :
        f \in {g \in [1..Len(xs) -> 1..Len(xs)] :
                  \A j, k \in 1..Len(xs) : j # k => g[j] # g[k]}}

IsCollection(v) == v.tag \in {"list", "tuple", "set", "dict"}

\* The entries of a collection, in the order the value holds them.
Entries(v) ==
    CASE v.tag \in {"list", "tuple"} -> v.items
      [] v.tag = "set" -> v.elems
      [] v.tag = "dict" -> v.pairs

EmptyCollections == {VList(<<>>), VDict(<<>>), VSet(<<>>), VTuple(<<>>)}

\* C1: for every supported value v, decode(encode(v)) equals v.
C1_RoundTrip == pc = "decoded" => result.ok /\ SameValue(result.val, value)

\* C2: two sets or two mappings that hold the same entries, inserted in
\* different orders, have byte-identical encodings.
C2_CanonicalStability ==
    (pc = "encoded" /\ value.tag \in {"set", "dict"}) =>
        \A xs \in Arrangements(Entries(value)) :
            _encode(IF value.tag = "set" THEN VSet(xs) ELSE VDict(xs)) = raw

\* C6: the body-reader loop of a non-empty collection stops at the
\* collection's own terminator, the last byte the encoder wrote for it, and
\* at no byte of a nested item.
C6_OwnTerminator ==
    (pc = "decoded" /\ IsCollection(value) /\ Entries(value) # <<>> /\ result.ok)
        => result.idx - 1 = Len(raw.out) - 1

\* The one-byte tag the encoder is to write for an empty collection.
EmptyTag(v) ==
    CASE v.tag = "list" -> B("L") [] v.tag = "dict" -> B("D")
      [] v.tag = "set" -> B("S") [] v.tag = "tuple" -> B("T")

\* C7: the four empty collections encode to the four distinct bytes L, D, S,
\* T and nothing else; decoding that byte, at index 0 or after other bytes,
\* gives the empty collection of the same kind and moves the cursor by one.
C7_EmptyCollections ==
    /\ (pc # "start" /\ value \in EmptyCollections) =>
          /\ raw = Ok(EmptyTag(value))
          /\ \A other \in EmptyCollections \ {value} : _encode(other) # raw
          /\ \A before \in {<<>>, B("l"), B("t") \o B("n")} :
                 _decode(before \o raw.out, Len(before))
                     = DOk(value, Len(before) + 1)
          /\ pc = "decoded" => result = DOk(value, 1)
    /\ (pc = "decoded" /\ value.tag = "list" /\ value.items # <<>>
            /\ \A k \in 1..Len(value.items) : value.items[k] \in EmptyCollections) =>
          /\ raw.out = B("l") \o Join([k \in 1..Len(value.items) |->
                                          EmptyTag(value.items[k])]) \o B("e")
          /\ result = DOk(value, Len(value.items) + 2)

C7_Witness ==
    /\ pc = "decoded"
    /\ value = VList(<<VSet(<<>>), VDict(<<>>)>>)
    /\ result = DOk(value, 4)

\* The encoding of one entry of a set (the item) or of a dict (key, value).
EntryBytes(v, x) ==
    IF v.tag = "set" THEN _encode(x).out ELSE _encode(x[1]).out \o _encode(x[2]).out

\* The bytes a sort by encoded form compares: the item's, or the key's.
SortBytes(v, x) == IF v.tag = "set" THEN _encode(x).out ELSE _encode(x[1]).out

\* The value a sort by value compares: the item, or the key.
SortValue(v, x) == IF v.tag = "set" THEN x ELSE x[1]

\* The orders of the entries of v that spell the body the encoder wrote.
Layouts(v) ==
    {q \in Arrangements(Entries(v)) :
        raw.out = (IF v.tag = "set" THEN B("s") ELSE B("d"))
                  \o Join([k \in 1..Len(q) |-> EntryBytes(v, q[k])]) \o B("e")}

IsNaN(x) == x.tag = "float" /\ x.f.fk = "nan"

RECURSIVE NatBits(_)
NatBits(n) == IF n = 0 THEN 0 ELSE 1 + NatBits(n \div 2)

bit_length(n) == NatBits(IF n < 0 THEN 0 - n ELSE n)

RECURSIVE Pow(_, _)
Pow(b, k) == IF k = 0 THEN 1 ELSE b * Pow(b, k - 1)

\* The big-endian base-256 digits of n >= 0, in exactly k bytes.
RECURSIVE BigEndian(_, _)
BigEndian(n, k) ==
    IF k = 0 THEN <<>> ELSE BigEndian(n \div 256, k - 1) \o <<n % 256>>

\* int.to_bytes(length, signed=True): big-endian two's complement, or
\* OverflowError when n does not fit in length bytes as a signed number.
to_bytes(n, length) ==
    LET half == Pow(256, length) \div 2
    IN  IF n < 0 - half \/ n >= half THEN Err("OverflowError")
        ELSE Ok(BigEndian(IF n < 0 THEN n + 2 * half ELSE n, length))

\* int.from_bytes(bytes, signed=True): big-endian two's complement.
RECURSIVE from_bytes_acc(_, _)
from_bytes_acc(acc, bs) ==
    IF bs = <<>> THEN acc ELSE from_bytes_acc(acc * 256 + Head(bs), Tail(bs))

from_bytes(bs) ==
    IF bs = <<>> THEN 0
    ELSE from_bytes_acc(IF Head(bs) >= 128 THEN Head(bs) - 256 ELSE Head(bs), Tail(bs))

\* The alphabet of base64.b85encode, as ASCII codes:
\* 0-9 A-Z a-z ! # $ % & ( ) * + - ; < = > ? @ ^ _ ` { | } ~
B85Alphabet ==
    [k \in 1..10 |-> 47 + k] \o [k \in 1..26 |-> 64 + k] \o [k \in 1..26 |-> 96 + k]
    \o <<33, 35, 36, 37, 38, 40, 41, 42, 43, 45, 59, 60,
         61, 62, 63, 64, 94, 95, 96, 123, 124, 125, 126>>

\* Position of a character in the alphabet (0-based), -1 when it is not in it.
B85Index(c) ==
    IF \E k \in 1..85 : B85Alphabet[k] = c
    THEN (CHOOSE k \in 1..85 : B85Alphabet[k] = c) - 1
    ELSE -1

\* One step of long division of a number written in digits of base `base`
\* by `by`: the quotient's digits and the remainder.
RECURSIVE DivDigits(_, _, _, _)
DivDigits(digits, base, by, carry) ==
    IF digits = <<>> THEN [quot |-> <<>>, rem |-> carry]
    ELSE LET cur == carry * base + Head(digits)
             rest == DivDigits(Tail(digits), base, by, cur % by)
         IN  [quot |-> <<cur \div by>> \o rest.quot, rem |-> rest.rem]

\* The number written by `digits` in base `base`, rewritten as `count`
\* digits of base `by` (most significant first), with what is left over.
RECURSIVE Rebase(_, _, _, _)
Rebase(digits, base, by, count) ==
    IF count = 0 THEN [out |-> <<>>, left |-> digits]
    ELSE LET d == DivDigits(digits, base, by, 0)
             rest == Rebase(d.quot, base, by, count - 1)
         IN  [out |-> rest.out \o <<d.rem>>, left |-> rest.left]

\* base64.b85encode(b): zero-pad to whole 4-byte words, write each word as
\* 5 characters, drop as many characters as bytes were padded.
RECURSIVE b85words(_)
b85words(bs) ==
    IF bs = <<>> THEN <<>>
    ELSE LET chunk == Rebase(SubSeq(bs, 1, 4), 256, 85, 5).out
         IN  [k \in 1..5 |-> B85Alphabet[chunk[k] + 1]] \o b85words(SubSeq(bs, 5, Len(bs)))

b85encode(bs) ==
    LET padding == (4 - (Len(bs) % 4)) % 4
        text == b85words(bs \o [k \in 1..padding |-> 0])
    IN  SubSeq(text, 1, Len(text) - padding)

\* base64.b85decode(text): pad with "~" to whole 5-character groups, read
\* each group as a 32-bit word, drop as many bytes as characters were
\* padded; ValueError on a character outside the alphabet or a group that
\* exceeds 32 bits.
RECURSIVE b85groups(_)
b85groups(text) ==
    IF text = <<>> THEN Ok(<<>>)
    ELSE LET group == [k \in 1..5 |-> B85Index(text[k])]
             word == Rebase(group, 85, 256, 4)
         IN  IF \E k \in 1..5 : group[k] = -1 THEN Err("ValueError")
             ELSE IF \E k \in 1..Len(word.left) : word.left[k] # 0 THEN Err("ValueError")
             ELSE Cat(Ok(word.out), b85groups(SubSeq(text, 6, Len(text))))

b85decode(text) ==
    LET padding == (5 - (Len(text) % 5)) % 5
        bs == b85groups(text \o [k \in 1..padding |-> 126])
    IN  IF ~bs.ok THEN bs ELSE Ok(SubSeq(bs.out, 1, Len(bs.out) - padding))

_encode_int(data) ==
    LET length == bit_length(data)
        armored == to_bytes(data, (length + 7) \div 8)
    IN  IF length < 8 THEN Ok(B("i") \o IntText(data) \o B("e"))
        ELSE IF ~armored.ok THEN armored
        ELSE Ok(B("i") \o b85encode(armored.out) \o B("e"))

_decode_int(data, index) ==
    LET end_index == Find(data, Ord("e"), index)
        number_str == Slice(data, index + 1, end_index)
        armored == b85decode(number_str)
    IN  IF end_index = -1 THEN DErr("ValueError")
        ELSE IF IsDigit(number_str) THEN DOk(DigitsValue(number_str), end_index + 1)
        ELSE IF ~armored.ok THEN DErr(armored.err)
        ELSE DOk(from_bytes(armored.out), end_index + 1)

\* Largest magnitude of the consecutive integers a run encodes.
MaxInt == 300

\* Integers at the edges of the two- and three-byte signed ranges, one whose
\* radix-85 text is all digits (797, "104") and one whose radix-85 text
\* holds an e (-32715, "fHe").
EdgeInts ==
    {32767, 32768, 0 - 32768, 0 - 32769, 65535, 65536, 0 - 65536,
     8388607, 0 - 8388608, 797, 0 - 32715}

IntInputs == ((0 - MaxInt)..MaxInt) \cup EdgeInts

InitInt ==
    /\ pc = "int_start"
    /\ num \in IntInputs
    /\ itext = NotRun
    /\ iresult = NotRun
    /\ CodecIdle /\ HuffIdle /\ TopIdle /\ RegIdle /\ BufIdle /\ TextIdle /\ PipeIdle /\ ObjIdle

\* text = _encode_int(n)
EncodeInt ==
    /\ pc = "int_start"
    /\ itext' = _encode_int(num)
    /\ pc' = "int_encoded"
    /\ UNCHANGED <<num, iresult, codecVars, huffVars, topVars, regVars, bufVars, textVars, pipeVars, objVars>>

\* _decode_int(text, 0, int); not reached when the encoder raised.
DecodeInt ==
    /\ pc = "int_encoded"
    /\ itext.ok
    /\ iresult' = _decode_int(itext.out, 0)
    /\ pc' = "int_decoded"
    /\ UNCHANGED <<num, itext, codecVars, huffVars, topVars, regVars, bufVars, textVars, pipeVars, objVars>>

NextInt == EncodeInt \/ DecodeInt

SpecInt == InitInt /\ [][NextInt]_vars

\* C4: an integer of bit length below 8 encodes as i, its decimal literal,
\* e, and decoding that text returns the integer, negative or not.
C4_SmallInts ==
    bit_length(num) < 8 =>
        /\ pc \in {"int_encoded", "int_decoded"} =>
               itext = Ok(B("i") \o IntText(num) \o B("e"))
        /\ pc = "int_decoded" => iresult = DOk(num, Len(itext.out))

\* The shortest big-endian two's-complement byte string that holds n.
MinimalSigned(n) ==
    LET k == CHOOSE j \in 1..3 :
                 /\ to_bytes(n, j).ok
                 /\ \A h \in 1..(j - 1) : ~to_bytes(n, h).ok
    IN  to_bytes(n, k).out

\* C5: an integer of bit length 8 or more encodes, without error, as i, the
\* radix-85 text of its minimal signed big-endian bytes, e, and decoding
\* that text returns the integer.
C5_ArmoredInts ==
    bit_length(num) >= 8 =>
        /\ pc \in {"int_encoded", "int_decoded"} =>
               itext = Ok(B("i") \o b85encode(MinimalSigned(num)) \o B("e"))
        /\ pc = "int_decoded" => iresult = DOk(num, Len(itext.out))

\* What _encode_int wrote between the i tag and the closing e.
int_body(text) == SubSeq(text, 2, Len(text) - 1)

\* C28: the body that _encode_int writes between the i tag and the closing
\* e holds no e byte, and it is all decimal digits exactly when the encoder
\* used the plain decimal form; so _decode_int's search for the first e and
\* its isdigit test select the body and the form the encoder used.
C28_IntFraming ==
    (pc \in {"int_encoded", "int_decoded"} /\ itext.ok) =>
        /\ Find(int_body(itext.out), Ord("e"), 0) = -1
        /\ IsDigit(int_body(itext.out)) <=> bit_length(num) < 8
        /\ pc = "int_decoded" =>
              iresult.ok /\ iresult.idx = Len(itext.out)

(***************************************************************************)
(* The Huffman optimizer (codec/optimize.py).  A bit string is a sequence  *)
(* of 0s and 1s; a code table is a sequence of <<symbol, code>> pairs in   *)
(* the order of the dict that holds it; a heap entry [weight, pair, ...]   *)
(* is a record of its weight and its pairs.                                *)
(***************************************************************************)

\* f'{byte:08b}'
Bits8(n) == [k \in 1..8 |-> (n \div Pow(2, 8 - k)) % 2]

\* int(bits, 2) for a non-empty bit string.
RECURSIVE BitsValue(_)
BitsValue(bits) ==
    IF bits = <<>> THEN 0
    ELSE 2 * BitsValue(SubSeq(bits, 1, Len(bits) - 1)) + bits[Len(bits)]

\* ''.join(f'{byte:08b}' for byte in data)
RECURSIVE BitString(_)
BitString(data) ==
    IF data = <<>> THEN <<>> ELSE Bits8(Head(data)) \o BitString(Tail(data))

\* The symbols of data in order of first appearance, the key order of Counter(data).
RECURSIVE FirstSeen(_, _)
FirstSeen(data, seen) ==
    IF data = <<>> THEN seen
    ELSE FirstSeen(Tail(data),
                   IF \E k \in 1..Len(seen) : seen[k] = Head(data) THEN seen
                   ELSE Append(seen, Head(data)))

\* Counter(data), as <<symbol, weight>> items.
_calculate_frequencies(data) ==
    LET keys == FirstSeen(data, <<>>)
    IN  [k \in 1..Len(keys) |->
            <<keys[k], Cardinality({j \in 1..Len(data) : data[j] = keys[k]})>>]

\* heap = [[weight, [symbol, ""]] ...]; heapq.heapify(heap)
initial_heap(freq) ==
    {[weight |-> freq[k][2], pairs |-> <<<<freq[k][1], <<>>>>>>] : k \in 1..Len(freq)}

\* Python's list order on two heap entries: by weight, then by the symbol
\* of the first pair (no symbol is in two entries).
EntryLess(a, b) ==
    \/ a.weight < b.weight
    \/ a.weight = b.weight /\ a.pairs[1][1] < b.pairs[1][1]

\* A pop of the greatest entry.
heappop_greatest(h) == CHOOSE a \in h : \A b \in h \ {a} : EntryLess(b, a)

\* heapq.heappop(h): the least entry.
heappop(h) == CHOOSE a \in h : \A b \in h \ {a} : EntryLess(a, b)

\* A merge that prefixes the codes of lo and of hi with the same bit.
merge_step_same_bit(h) ==
    LET lo == heappop(h)
        hi == heappop(h \ {lo})
        Prefixed(bit, ps) == [k \in 1..Len(ps) |-> <<ps[k][1], <<bit>> \o ps[k][2]>>]
    IN  (h \ {lo, hi}) \cup
        {[weight |-> lo.weight + hi.weight,
          pairs |-> Prefixed(0, lo.pairs) \o Prefixed(0, hi.pairs)]}

\* One pass of the merge loop: pop lo and hi, prefix their codes with 0 and
\* 1, push the joined entry.
merge_step(h) ==
    LET lo == heappop(h)
        hi == heappop(h \ {lo})
        Prefixed(bit, ps) == [k \in 1..Len(ps) |-> <<ps[k][1], <<bit>> \o ps[k][2]>>]
    IN  (h \ {lo, hi}) \cup
        {[weight |-> lo.weight + hi.weight,
          pairs |-> Prefixed(0, lo.pairs) \o Prefixed(1, hi.pairs)]}

\* huffman_codes[byte]
CodeOf(huffman_codes, byte) ==
    huffman_codes[CHOOSE k \in 1..Len(huffman_codes) : huffman_codes[k][1] = byte][2]

\* _encode_data with a padding of 0 to 7 bits: none on whole bytes.
_encode_data_pad_0_to_7(data, huffman_codes) ==
    With(Join([k \in 1..Len(data) |-> CodeOf(huffman_codes, data[k])]), LAMBDA encoded_bits :
    With((8 - (Len(encoded_bits) % 8)) % 8, LAMBDA padding :
    With(Bits8(padding) \o encoded_bits \o [k \in 1..padding |-> 0], LAMBDA padded :
        [k \in 1..(Len(padded) \div 8) |-> BitsValue(SubSeq(padded, 8 * k - 7, 8 * k))])))

_encode_data(data, huffman_codes) ==
    With(Join([k \in 1..Len(data) |-> CodeOf(huffman_codes, data[k])]), LAMBDA encoded_bits :
    With(8 - (Len(encoded_bits) % 8), LAMBDA padding :
    With(Bits8(padding) \o encoded_bits \o [k \in 1..padding |-> 0], LAMBDA padded :
        [k \in 1..(Len(padded) \div 8) |-> BitsValue(SubSeq(padded, 8 * k - 7, 8 * k))])))

\* The header bytes of one table entry: symbol, code length, the code in
\* chunks of up to 8 bits, each chunk written as the number it spells.
MappingEntry(pair) ==
    LET code == pair[2]
    IN  <<pair[1], Len(code)>> \o
        [k \in 1..((Len(code) + 7) \div 8) |->
            BitsValue(SubSeq(code, 8 * k - 7, Min(8 * k, Len(code))))]

_encode_mapping(huffman_codes) ==
    With(Join([k \in 1..Len(huffman_codes) |-> MappingEntry(huffman_codes[k])]), LAMBDA header :
        <<Len(header) \div 256, Len(header) % 256>> \o header)

\* huffman_codes[symbol] = code on a dict held as pairs.
SetCode(huffman_codes, symbol, code) ==
    IF \E k \in 1..Len(huffman_codes) : huffman_codes[k][1] = symbol
    THEN [k \in 1..Len(huffman_codes) |->
             IF huffman_codes[k][1] = symbol THEN <<symbol, code>> ELSE huffman_codes[k]]
    ELSE Append(huffman_codes, <<symbol, code>>)

\* The loop of _decode_mapping from position index; IndexError when the
\* header ends inside an entry.
RECURSIVE mapping_loop(_, _, _)
mapping_loop(header, index, huffman_codes) ==
    IF index >= Len(header) THEN [ok |-> TRUE, codes |-> huffman_codes]
    ELSE IF index + 1 >= Len(header) THEN Err("IndexError")
    ELSE LET code_length == header[index + 2]
             width == (code_length + 7) \div 8
         IN  IF index + 2 + width > Len(header) THEN Err("IndexError")
             ELSE mapping_loop(header, index + 2 + width,
                      SetCode(huffman_codes, header[index + 1],
                              Slice(BitString(Slice(header, index + 2, index + 2 + width)),
                                    0, code_length)))

_decode_mapping(header) == mapping_loop(header, 0, <<>>)

_split_header_and_data(encoded_data) ==
    LET header_length == from_bytes_acc(0, Slice(encoded_data, 0, 2))
    IN  <<Slice(encoded_data, 2, 2 + header_length),
          Slice(encoded_data, 2 + header_length, Len(encoded_data))>>

\* The read loop of _decode_data: grow current_bits bit by bit and emit
\* reverse_huffman_codes[current_bits], the last symbol of the table that
\* carries that code, whenever it is a key.
RECURSIVE read_bits(_, _, _, _)
read_bits(bit_string, current_bits, huffman_codes, decoded_bytes) ==
    IF bit_string = <<>> THEN decoded_bytes
    ELSE LET grown == Append(current_bits, Head(bit_string))
             hits == {k \in 1..Len(huffman_codes) : huffman_codes[k][2] = grown}
         IN  IF hits = {}
             THEN read_bits(Tail(bit_string), grown, huffman_codes, decoded_bytes)
             ELSE read_bits(Tail(bit_string), <<>>, huffman_codes,
                      Append(decoded_bytes,
                             huffman_codes[CHOOSE k \in hits : \A j \in hits : j <= k][1]))

\* _decode_data with the reverse table {code: symbol} of huffman_codes.
\* bit_string[8:-padding] of _decode_data: the bits the read loop is given.
payload_bits(data) ==
    LET bit_string == BitString(data)
        padding == BitsValue(Slice(bit_string, 0, 8))
        stop == IF padding = 0 THEN 0 ELSE Max(Len(bit_string) - padding, 0)
    IN  Slice(bit_string, 8, stop)

_decode_data(data, huffman_codes) ==
    IF data = <<>> THEN Err("ValueError")
    ELSE Ok(read_bits(payload_bits(data), <<>>, huffman_codes, <<>>))

inflate_bytes(encoded_data) ==
    LET parts == _split_header_and_data(encoded_data)
        huffman_codes == _decode_mapping(parts[1])
    IN  IF ~huffman_codes.ok THEN huffman_codes
        ELSE _decode_data(parts[2], huffman_codes.codes)

\* Longest byte stream a run deflates.
MaxStream == 4

\* The byte values the streams are made of: A, B, C, D.
HuffSymbols == {65, 66, 67, 68}

InitHuff ==
    /\ pc = "huff_start"
    /\ stream \in SeqsUpTo(HuffSymbols, MaxStream)
    /\ heap = {}
    /\ merges = 0
    /\ packed = NotRun
    /\ restored = NotRun
    /\ CodecIdle /\ IntIdle /\ TopIdle /\ RegIdle /\ BufIdle /\ TextIdle /\ PipeIdle /\ ObjIdle

\* deflate_bytes up to the heapify of _build_huffman_tree.
HuffStart ==
    /\ pc = "huff_start"
    /\ heap' = initial_heap(_calculate_frequencies(stream))
    /\ pc' = "huff_build"
    /\ UNCHANGED <<stream, merges, packed, restored, codecVars, intVars, topVars, regVars, bufVars, textVars, pipeVars, objVars>>

\* One iteration of `while len(heap) > 1`.
HuffMerge ==
    /\ pc = "huff_build"
    /\ Cardinality(heap) > 1
    /\ heap' = merge_step(heap)
    /\ merges' = merges + 1
    /\ UNCHANGED <<pc, stream, packed, restored, codecVars, intVars, topVars, regVars, bufVars, textVars, pipeVars, objVars>>

\* The loop has ended: return heap[0] (IndexError on an empty heap), read
\* the codes off it, and build header + data.
HuffFinish ==
    /\ pc = "huff_build"
    /\ Cardinality(heap) <= 1
    /\ packed' = IF heap = {} THEN Err("IndexError")
                 ELSE With((CHOOSE a \in heap : TRUE).pairs, LAMBDA huffman_codes :
                          Ok(_encode_mapping(huffman_codes)
                             \o _encode_data(stream, huffman_codes)))
    /\ pc' = "huff_deflated"
    /\ UNCHANGED <<stream, heap, merges, restored, codecVars, intVars, topVars, regVars, bufVars, textVars, pipeVars, objVars>>

\* inflate_bytes(deflate_bytes(s)); not reached when deflate_bytes raised.
Inflate ==
    /\ pc = "huff_deflated"
    /\ packed.ok
    /\ restored' = inflate_bytes(packed.out)
    /\ pc' = "huff_inflated"
    /\ UNCHANGED <<stream, heap, merges, packed, codecVars, intVars, topVars, regVars, bufVars, textVars, pipeVars, objVars>>

NextHuff == HuffStart \/ HuffMerge \/ HuffFinish \/ Inflate

SpecHuff == InitHuff /\ [][NextHuff]_vars

\* C3: for every byte stream s, deflate_bytes(s) succeeds and
\* inflate_bytes of it is exactly s.
C3_OptimizerRoundTrip ==
    /\ pc = "huff_deflated" => packed.ok
    /\ pc = "huff_inflated" => restored = Ok(stream)

(***************************************************************************)
(* The substring-table pass (codec/flatten.py) and the top-level encode    *)
(* and decode (codec/__init__.py).  A mapping {substring: code} is a       *)
(* sequence of <<substring, code>> pairs in dict order.                    *)
(***************************************************************************)

\* substring in larger, on bytes.
Contains(larger, substring) ==
    \E s \in 0..(Len(larger) - Len(substring)) :
        Slice(larger, s, s + Len(substring)) = substring

\* bytes.replace(old, new): left to right, non-overlapping.
RECURSIVE Replace(_, _, _)
Replace(data, old, new) ==
    IF old = <<>>
    THEN new \o Join([k \in 1..Len(data) |-> <<data[k]>> \o new])
    ELSE IF Len(data) < Len(old) THEN data
    ELSE IF SubSeq(data, 1, Len(old)) = old
    THEN new \o Replace(SubSeq(data, Len(old) + 1, Len(data)), old, new)
    ELSE <<Head(data)>> \o Replace(Tail(data), old, new)

\* The substrings of one size that occur more than once, each with its
\* count and the start of its first occurrence, in the order sorted() gives
\* equal-length items: count descending, then insertion order.
RECURSIVE ByCount(_)
ByCount(found) ==
    IF found = {} THEN <<>>
    ELSE LET best == CHOOSE c \in found : \A d \in found \ {c} :
                         \/ c.count > d.count
                         \/ c.count = d.count /\ c.first < d.first
         IN  <<best>> \o ByCount(found \ {best})

RepeatedOfSize(data, size) ==
    LET starts == 0..(Len(data) - size)
        Same(s) == {r \in starts : Slice(data, r, r + size) = Slice(data, s, s + size)}
    IN  ByCount({[sub |-> Slice(data, s, s + size),
                  count |-> Cardinality(Same(s)), first |-> s] :
                    s \in {r \in starts : Cardinality(Same(r)) > 1
                                          /\ \A q \in Same(r) : r <= q}})

\* The repeated substrings of sizes 2..len//2, longest first.
RECURSIVE repeated_from(_, _)
repeated_from(data, size) ==
    IF size < 2 THEN <<>>
    ELSE RepeatedOfSize(data, size) \o repeated_from(data, size - 1)

_find_repeated_subbytes(data) == repeated_from(data, Len(data) \div 2)

RECURSIVE create_loop(_, _, _)
create_loop(substrings, mapping, code) ==
    IF substrings = <<>> THEN mapping
    ELSE IF \A k \in 1..Len(mapping) : ~Contains(mapping[k][1], Head(substrings).sub)
    THEN IF code + 1 >= 256 THEN Append(mapping, <<Head(substrings).sub, <<code>>>>)
         ELSE create_loop(Tail(substrings),
                          Append(mapping, <<Head(substrings).sub, <<code>>>>), code + 1)
    ELSE create_loop(Tail(substrings), mapping, code)

_create_mapping(substrings) == create_loop(substrings, <<>>, 1)

\* sorted(items, key=lambda item: -len(item[field])): stable, longest first.
RECURSIVE LongestFirst(_, _)
LongestFirst(items, field) ==
    IF items = <<>> THEN <<>>
    ELSE LET k == CHOOSE j \in 1..Len(items) :
                      /\ \A h \in 1..Len(items) : Len(items[h][field]) <= Len(items[j][field])
                      /\ \A h \in 1..(j - 1) : Len(items[h][field]) < Len(items[j][field])
         IN  <<items[k]>> \o
             LongestFirst(SubSeq(items, 1, k - 1) \o SubSeq(items, k + 1, Len(items)), field)

\* for old, new in pairs: data = data.replace(old, new)
RECURSIVE ReplaceAll(_, _)
ReplaceAll(data, pairs) ==
    IF pairs = <<>> THEN data
    ELSE ReplaceAll(Replace(data, Head(pairs)[1], Head(pairs)[2]), Tail(pairs))

_replace_subbytes(data, mapping) == ReplaceAll(data, LongestFirst(mapping, 1))

\* deflate_bytes of flatten.py.
flatten_deflate_bytes(data) ==
    LET mapping == _create_mapping(_find_repeated_subbytes(data))
        encoded_data == _replace_subbytes(data, mapping)
    IN  IF Len(data) <= Len(encoded_data)
        THEN [mapping |-> <<>>, encoded_data |-> data]
        ELSE [mapping |-> mapping, encoded_data |-> encoded_data]

\* {v: k for k, v in mapping.items()}
RECURSIVE Reversed(_, _)
Reversed(mapping, reverse) ==
    IF mapping = <<>> THEN reverse
    ELSE Reversed(Tail(mapping), SetCode(reverse, Head(mapping)[2], Head(mapping)[1]))

\* inflate_bytes of flatten.py.
flatten_inflate_bytes(encoded_data, mapping) ==
    ReplaceAll(encoded_data, LongestFirst(Reversed(mapping, <<>>), 2))

\* mapping, encoded_data = deflate_bytes(data); deflated = _encode((mapping, encoded_data))
deflated_form(data) ==
    With(flatten_deflate_bytes(data), LAMBDA flat :
        _encode(VTuple(<<VDict([k \in 1..Len(flat.mapping) |->
                                   <<VBytes(flat.mapping[k][1]),
                                     VBytes(flat.mapping[k][2])>>]),
                         VBytes(flat.encoded_data)>>)))

\* A choice of form that also takes the optimized form on a tie.
choose_form_on_tie(raw_data, deflated) ==
    IF ~deflated.ok THEN deflated
    ELSE IF (Len(deflated.out) + 1) > Len(raw_data.out) THEN raw_data
    ELSE Ok(B("?") \o deflated.out)

\* if (len(deflated) + 1) >= len(data): return data; return b"?" + deflated
choose_form(raw_data, deflated) ==
    IF ~deflated.ok THEN deflated
    ELSE IF (Len(deflated.out) + 1) >= Len(raw_data.out) THEN raw_data
    ELSE Ok(B("?") \o deflated.out)

\* encode after data = _encode(data), which may have raised.
encode_raw(raw_data) ==
    IF ~raw_data.ok THEN raw_data
    ELSE choose_form(raw_data, deflated_form(raw_data.out))

\* encode(data) of codec/__init__.py, optimize=True.
encode(data) == encode_raw(_encode(data))

\* The value of a decoder result, without the cursor.
Returned(r) == IF r.ok THEN [ok |-> TRUE, val |-> r.val] ELSE r

\* (mapping, encoded_data), _ = pair; data = inflate_bytes(encoded_data, mapping)
inflate_pair(pair) ==
    IF ~pair.ok THEN pair
    ELSE IF pair.val.tag \notin {"tuple", "list"} THEN Err("TypeError")
    ELSE IF Len(pair.val.items) # 2 THEN Err("ValueError")
    ELSE IF pair.val.items[1].tag # "dict" THEN Err("AttributeError")
    ELSE IF pair.val.items[2].tag # "bytes" THEN Err("TypeError")
    ELSE IF \E k \in 1..Len(pair.val.items[1].pairs) :
                \/ pair.val.items[1].pairs[k][1].tag # "bytes"
                \/ pair.val.items[1].pairs[k][2].tag # "bytes"
    THEN Err("TypeError")
    ELSE Ok(flatten_inflate_bytes(pair.val.items[2].bs,
                [k \in 1..Len(pair.val.items[1].pairs) |->
                    <<pair.val.items[1].pairs[k][1].bs,
                      pair.val.items[1].pairs[k][2].bs>>]))

\* A decode that takes every input for a raw stream.
open_stream_always_raw(data) == Ok(data)

\* The stream decode goes on to read: data itself unless it starts with
\* the marker, else what data[1:] inflates to.
open_stream(data) ==
    IF ~StartsWith(data, 0, B("?")) THEN Ok(data)
    ELSE inflate_pair(_decode(Tail(data), 0))

\* result, _ = _decode(data) on the stream to read, unless a step before raised.
decode_stream(data) == IF ~data.ok THEN data ELSE Returned(_decode(data.out, 0))

\* decode(data) of codec/__init__.py.
decode(data) == decode_stream(open_stream(data))

\* Longest run of one byte in the byte strings a top-level run encodes.
MaxRun == 13

Run(n) == [k \in 1..n |-> Ord("A")]

\* Pairs of byte strings of equal or nearly equal runs: their raw streams
\* repeat a long substring.
RunPairs ==
    {VTuple(<<VBytes(Run(p[1])), VBytes(Run(p[1] + p[2]))>>) :
        p \in (0..MaxRun) \X {0, 1}}

\* A byte string that is the first substitution code, bytes([1]), before two
\* equal runs: the raw stream holds a code byte and a repeated substring.
CodeByteTriples ==
    {VTuple(<<VBytes(<<1>>), VBytes(Run(n)), VBytes(Run(n))>>) :
        n \in (MaxRun - 1)..MaxRun}

TopValues == Atoms \cup EmptyCollections \cup RunPairs \cup CodeByteTriples

InitTop ==
    /\ pc = "top_start"
    /\ tvalue \in TopValues
    /\ traw = NotRun
    /\ tout = NotRun
    /\ tstream = NotRun
    /\ tdecoded = NotRun
    /\ CodecIdle /\ IntIdle /\ HuffIdle /\ RegIdle /\ BufIdle /\ TextIdle /\ PipeIdle /\ ObjIdle

\* encode: data = _encode(data)
TopEncodeRaw ==
    /\ pc = "top_start"
    /\ traw' = _encode(tvalue)
    /\ pc' = "top_raw"
    /\ UNCHANGED <<tvalue, tout, tstream, tdecoded, codecVars, intVars, huffVars, regVars, bufVars, textVars, pipeVars, objVars>>

\* encode: deflate the raw stream, encode the pair, return the shorter form.
TopChoose ==
    /\ pc = "top_raw"
    /\ tout' = encode_raw(traw)
    /\ pc' = "top_encoded"
    /\ UNCHANGED <<tvalue, traw, tstream, tdecoded, codecVars, intVars, huffVars, regVars, bufVars, textVars, pipeVars, objVars>>

\* decode: look at the first byte and, on the marker, inflate; not reached
\* when encode raised.
TopOpen ==
    /\ pc = "top_encoded"
    /\ tout.ok
    /\ tstream' = open_stream(tout.out)
    /\ pc' = "top_opened"
    /\ UNCHANGED <<tvalue, traw, tout, tdecoded, codecVars, intVars, huffVars, regVars, bufVars, textVars, pipeVars, objVars>>

\* decode: result, _ = _decode(data); return result
TopDecode ==
    /\ pc = "top_opened"
    /\ tdecoded' = decode_stream(tstream)
    /\ pc' = "top_decoded"
    /\ UNCHANGED <<tvalue, traw, tout, tstream, codecVars, intVars, huffVars, regVars, bufVars, textVars, pipeVars, objVars>>

NextTop == TopEncodeRaw \/ TopChoose \/ TopOpen \/ TopDecode

SpecTop == InitTop /\ [][NextTop]_vars

\* The raw stream of the value of a top-level run.
RawStream == _encode(tvalue).out

\* The optimized form of the value of a top-level run, marker included.
OptimizedForm == B("?") \o deflated_form(RawStream).out

TopEncoded == pc \in {"top_encoded", "top_opened", "top_decoded"} /\ _encode(tvalue).ok

\* C8: the top-level encode returns the optimized form only when that
\* form, marker byte included, is strictly shorter than the raw stream; on
\* a tie or when it is longer it returns the raw stream; so the output is
\* never longer than the raw stream.
C8_ConditionalOptimization ==
    TopEncoded =>
        /\ tout = encode(tvalue)
        /\ tout.ok
        /\ Len(OptimizedForm) < Len(RawStream) => tout.out = OptimizedForm
        /\ Len(OptimizedForm) >= Len(RawStream) => tout.out = RawStream
        /\ Len(tout.out) <= Len(RawStream)

C8_Witness ==
    /\ pc = "top_encoded"
    /\ tout = Ok(OptimizedForm)
    /\ Len(tout.out) < Len(RawStream)

C29_SubstitutionLossless ==
    /\ TopEncoded =>
          With(flatten_deflate_bytes(RawStream), LAMBDA flat :
              flatten_inflate_bytes(flat.encoded_data, flat.mapping) = RawStream)
    /\ pc = "top_decoded" => tdecoded = Returned(_decode(RawStream, 0))

(***************************************************************************)
(* The type-reference registry: map_names builds MODULE_MAPPING from the   *)
(* names of the host's built-in modules, and the object and enum encoders  *)
(* of bumble/codec.py substitute a registered module name by its token,    *)
(* the decoders a token by its module name.  A dict is the sequence of its *)
(* (key, value) pairs in insertion order, the order .items() walks.        *)
(***************************************************************************)

\* The text of a sequence of characters.
Text(chars) == [k \in 1..Len(chars) |-> Ord(chars[k])]

ModMain == Text(<<"_", "_", "m", "a", "i", "n", "_", "_">>)
ModAbc == Text(<<"_", "a", "b", "c">>)
ModAst == Text(<<"_", "a", "s", "t">>)
ModCodecs == Text(<<"_", "c", "o", "d", "e", "c", "s">>)
ModCodecsCn == ModCodecs \o Text(<<"_", "c", "n">>)
ModCollections == Text(<<"c", "o", "l", "l", "e", "c", "t", "i", "o", "n", "s">>)
ModCollectionsAbc == ModCollections \o Text(<<".", "a", "b", "c">>)

\* sys.builtin_module_names: names a host build may hold (every build has
\* _abc and _ast; _codecs_cn is built in on Windows).
BuiltinPool == {ModAbc, ModAst, ModCodecs, ModCodecsCn}

\* The names map_names of bumble_bencoding adds to the built-in ones.
additional_names == {ModMain, ModCollections, ModCollectionsAbc}

\* sorted(names) of distinct strings.
sorted_names(names) ==
    CHOOSE s \in [1..Cardinality(names) -> names] :
        \A j, k \in 1..Cardinality(names) : j < k => SeqLt(s[j], s[k])

\* The while loop of generate_symbol: the token grows by the next character
\* of the name until no registered token equals it; exc is what running out
\* of characters raises.
RECURSIVE symbol_loop(_, _, _, _, _)
symbol_loop(name, symbols, idx, symbol, exc) ==
    IF \A k \in 1..Len(symbols) : symbols[k][2] # symbol THEN Ok(symbol)
    ELSE IF idx + 1 >= Len(name) THEN Err(exc)
    ELSE symbol_loop(name, symbols, idx + 1, Append(symbol, name[idx + 2]), exc)

generate_symbol(name, symbols, exc) ==
    IF name = <<>> THEN Err("IndexError")
    ELSE symbol_loop(name, symbols, 0, <<Ord("?"), name[1]>>, exc)

\* for name in names: symbols[name] = generate_symbol(name, symbols)
RECURSIVE names_loop(_, _, _)
names_loop(names, symbols, exc) ==
    IF names = <<>> THEN [ok |-> TRUE, seq |-> symbols]
    ELSE With(generate_symbol(Head(names), symbols, exc), LAMBDA symbol :
             IF ~symbol.ok THEN symbol
             ELSE names_loop(Tail(names),
                             Append(symbols, <<Head(names), symbol.out>>), exc))

\* map_names of bumble/codec/constants.py: __main__ is registered first.
map_names(builtin_names) ==
    names_loop(sorted_names(builtin_names),
               <<<<ModMain, <<Ord("?"), Ord("M")>>>>>>, "IndexError")

\* map_names of bumble_bencoding/codec/constants.py.
bencoding_map_names(builtin_names) ==
    names_loop(sorted_names(builtin_names \cup additional_names), <<>>,
               "ValueError")

\* {v: k for k, v in symbols.items()}: a token seen again keeps its place
\* and takes the later name.
RECURSIVE reverse_loop(_, _)
reverse_loop(items, reversed) ==
    IF items = <<>> THEN reversed
    ELSE reverse_loop(Tail(items), SetCode(reversed, Head(items)[2], Head(items)[1]))

reverse_symbols(symbols) == reverse_loop(symbols, <<>>)

\* import_path.replace(old, new, 1) where import_path.startswith(old).
replace_first(import_path, old, new) ==
    new \o SubSeq(import_path, Len(old) + 1, Len(import_path))

\* for old, new in items: if import_path.startswith(old):
\*     import_path = import_path.replace(old, new, 1); break
RECURSIVE substitute(_, _)
substitute(import_path, items) ==
    IF items = <<>> THEN import_path
    ELSE IF StartsWith(import_path, 0, Head(items)[1])
    THEN replace_first(import_path, Head(items)[1], Head(items)[2])
    ELSE substitute(import_path, Tail(items))

\* The import path _encode_object and _encode_enum write.
encode_import_path(import_path, mapping) == substitute(import_path, mapping)

\* The import path _decode_object and _decode_enum resolve.
decode_import_path(import_path, mapping) ==
    substitute(import_path, reverse_symbols(mapping))

\* Most built-in modules a host holds in a registry run.
MaxBuiltins == 3

\* The registries an import can have built.
BuiltinNames == {S \in SUBSET BuiltinPool : Cardinality(S) <= MaxBuiltins}

\* MODULE_MAPPING of bumble.py, in the order the dict literal lists it.
MODULE_MAPPING ==
    <<
       <<ModMain, Text(<<"?", "M">>)>>,
       <<Text(<<"b", "u", "i", "l", "t", "i", "n", "s">>), Text(<<"?", "b">>)>>,
       <<Text(<<"t", "y", "p", "i", "n", "g">>), Text(<<"?", "t">>)>>,
       <<Text(<<"t", "y", "p", "e", "s">>), Text(<<"?", "T">>)>>,
       <<Text(<<"m", "a", "t", "h">>), Text(<<"?", "m">>)>>,
       <<Text(<<"c", "o", "l", "l", "e", "c", "t", "i", "o", "n", "s">>), Text(<<"?", "c">>)>>,
       <<Text(<<"f", "u", "n", "c", "t", "o", "o", "l", "s">>), Text(<<"?", "f">>)>>,
       <<Text(<<"e", "n", "u", "m">>), Text(<<"?", "e">>)>>,
       <<Text(<<"d", "a", "t", "a", "c", "l", "a", "s", "s", "e", "s">>), Text(<<"?", "d">>)>>,
       <<Text(<<"d", "e", "c", "i", "m", "a", "l">>), Text(<<"?", "D">>)>>,
       <<Text(<<"b", "a", "s", "e", "6", "4">>), Text(<<"?", "B">>)>>,
       <<Text(<<"b", "i", "n", "a", "s", "c", "i", "i">>), Text(<<"?", "a">>)>>,
       <<Text(<<"i", "m", "p", "o", "r", "t", "l", "i", "b">>), Text(<<"?", "i">>)>>,
       <<Text(<<"h", "a", "s", "h", "l", "i", "b">>), Text(<<"?", "h">>)>>,
       <<Text(<<"l", "z", "m", "a">>), Text(<<"?", "l">>)>>,
       <<Text(<<"z", "l", "i", "b">>), Text(<<"?", "z">>)>>,
       <<Text(<<"b", "z", "2">>), Text(<<"?", "B">>)>>,
       <<Text(<<"g", "z", "i", "p">>), Text(<<"?", "g">>)>>,
       <<Text(<<"p", "i", "c", "k", "l", "e">>), Text(<<"?", "p">>)>>,
       <<Text(<<"j", "s", "o", "n">>), Text(<<"?", "j">>)>>
    >>

\* The registries an import can have built, and the table bumble.py spells
\* out.
Registries ==
    {m.seq : m \in {r \in {map_names(S) : S \in BuiltinNames}
                          \cup {bencoding_map_names(S) : S \in BuiltinNames} :
                       r.ok}}
    \cup {MODULE_MAPPING}

\* Type references: a module path, a dot and a class name.
References ==
    {m \o Text(<<".", "A">>) :
        m \in BuiltinPool \cup additional_names \cup {Text(<<"M">>)}}

InitReg ==
    /\ pc = "reg_start"
    /\ rmapping \in Registries
    /\ rref \in References
    /\ rshort = NotRun
    /\ rlong = NotRun
    /\ CodecIdle /\ IntIdle /\ HuffIdle /\ TopIdle /\ BufIdle /\ TextIdle /\ PipeIdle /\ ObjIdle

\* _encode_object, _encode_enum: the import path after the registry loop.
Shorten ==
    /\ pc = "reg_start"
    /\ rshort' = Ok(encode_import_path(rref, rmapping))
    /\ pc' = "reg_short"
    /\ UNCHANGED <<rmapping, rref, rlong, codecVars, intVars, huffVars, topVars, bufVars, textVars, pipeVars, objVars>>

\* _decode_object, _decode_enum: the written path after the reverse loop.
Lengthen ==
    /\ pc = "reg_short"
    /\ rlong' = Ok(decode_import_path(rshort.out, rmapping))
    /\ pc' = "reg_long"
    /\ UNCHANGED <<rmapping, rref, rshort, codecVars, intVars, huffVars, topVars, bufVars, textVars, pipeVars, objVars>>

NextReg == Shorten \/ Lengthen

SpecReg == InitReg /\ [][NextReg]_vars

\* C11: the decode-side substitution applied to the encode-side compressed
\* form of a type reference returns the reference exactly, also when one
\* registered token is a literal prefix of another.
C11_ReferenceRoundTrip == pc = "reg_long" => rlong = Ok(rref)

\* The registered module names that are literal prefixes of the reference.
MatchingNames ==
    {rmapping[k][1] : k \in {j \in 1..Len(rmapping) :
                                StartsWith(rref, 0, rmapping[j][1])}}

\* The token registered for a module name.
TokenOf(name) ==
    rmapping[CHOOSE k \in 1..Len(rmapping) : rmapping[k][1] = name][2]

\* C12: the encoder replaces the longest registered module name that is a
\* literal prefix of the reference by its token, and writes the reference
\* unchanged when no registered name is a prefix of it.
C12_LongestPrefix ==
    pc \in {"reg_short", "reg_long"} =>
        IF MatchingNames = {} THEN rshort = Ok(rref)
        ELSE \E name \in MatchingNames :
                /\ \A other \in MatchingNames : Len(other) <= Len(name)
                /\ rshort = Ok(TokenOf(name)
                               \o SubSeq(rref, Len(name) + 1, Len(rref)))

(***************************************************************************)
(* Further properties of the codec run.                                    *)
(***************************************************************************)

\* The elements of a set, the keys of a dict, in iteration order.
OrderedBy(v) ==
    IF v.tag = "set" THEN v.elems
    ELSE [k \in 1..Len(v.pairs) |-> v.pairs[k][1]]

\* Python's < does not order the entries totally: for two of them (they
\* are never equal) neither is less than the other, or comparing raises.
Unorderable(xs) ==
    \E j, k \in 1..Len(xs) :
        j # k /\ PyLt(xs[j], xs[k]) # "T" /\ PyLt(xs[k], xs[j]) # "T"

\* C13: encoding a set whose elements, or a dict whose keys, cannot be
\* placed in a total order fails, and the caller receives the error alone,
\* no bytes.
C13_UnorderableFails ==
    (pc = "encoded" /\ value.tag \in {"set", "dict"}
     /\ Unorderable(OrderedBy(value)))
        => raw = Err("TypeError")

(***************************************************************************)
(* The buffer run: the decoder is handed a buffer that holds the encoding  *)
(* of a value after some bytes, before some bytes, or short of its last    *)
(* bytes; the recursive decoder is called at the index after the prefix,   *)
(* the entry point decode on the whole buffer.                             *)
(***************************************************************************)

\* Most bytes an encoding loses at its end in a buffer run.
MaxCut == 2

BufValues ==
    Atoms \cup {VList(<<VInt(2)>>), VList(<<VBytes(B("e"))>>),
                VSet(<<VStr(NameA)>>),
                VDict(<< <<VStr(NameA), VInt(2)>> >>),
                VNamed(NameN, <<NameA>>, <<VInt(2)>>),
                VArray(Ord("i"), <<VInt(2)>>),
                VObject(PathC, << <<VStr(NameA), VInt(2)>> >>)}

BufPrefixes == {<<>>, B("l")}

BufSuffixes == {<<>>, B("e"), B("t"), B("x")}

\* The encoding as the buffer holds it: without its last bcut bytes.
Kept == With(_encode(bvalue), LAMBDA enc : Slice(enc.out, 0, Len(enc.out) - bcut))

\* The buffer handed to the decoder.
Buffer == bprefix \o Kept \o bsuffix

InitBuf ==
    /\ pc = "buf_start"
    /\ bvalue \in BufValues
    /\ bprefix \in BufPrefixes
    /\ bsuffix \in BufSuffixes
    /\ bcut \in 0..MaxCut
    /\ bres = NotRun
    /\ bdec = NotRun
    /\ CodecIdle /\ IntIdle /\ HuffIdle /\ TopIdle /\ RegIdle /\ TextIdle /\ PipeIdle /\ ObjIdle

\* value, index = decoder.decode(data, index)
BufParse ==
    /\ pc = "buf_start"
    /\ bres' = _decode(Buffer, Len(bprefix))
    /\ pc' = "buf_parsed"
    /\ UNCHANGED <<bvalue, bprefix, bsuffix, bcut, bdec, codecVars, intVars, huffVars, topVars, regVars, textVars, pipeVars, objVars>>

\* value = bumble_bencoding.decode(data)
BufDecode ==
    /\ pc = "buf_start"
    /\ bdec' = decode(Buffer)
    /\ pc' = "buf_decoded"
    /\ UNCHANGED <<bvalue, bprefix, bsuffix, bcut, bres, codecVars, intVars, huffVars, topVars, regVars, textVars, pipeVars, objVars>>

NextBuf == BufParse \/ BufDecode

SpecBuf == InitBuf /\ [][NextBuf]_vars

\* The buffer is a strict prefix of the encoding, or one unknown tag byte.
Malformed ==
    /\ bprefix = <<>>
    /\ \/ bsuffix = <<>> /\ bcut >= 1
       \/ Kept = <<>> /\ bsuffix = B("x")

\* C14: a buffer that is a strict prefix of a valid encoding, or that
\* starts with an unknown tag byte, makes decode fail with the decoding
\* error; no value is returned.
C14_MalformedReported ==
    (pc = "buf_decoded" /\ Malformed) => bdec = Err("BumbleDecodeException")

\* C15: decode returns a value only when parsing the top-level value
\* consumes the buffer exactly; a valid encoding followed by extra bytes is
\* rejected with the decoding error.
C15_WholeBuffer ==
    (pc = "buf_decoded" /\ bprefix = <<>>) =>
        /\ bdec.ok => _decode(Buffer, 0) = DOk(bdec.val, Len(Buffer))
        /\ (bcut = 0 /\ bsuffix # <<>>) => bdec = Err("BumbleDecodeException")

\* C18: called at the index after the prefix, the recursive decoder returns
\* the encoded value and the index after the last byte the encoder wrote
\* for it, whatever comes before and after.
C18_CursorExact ==
    (pc = "buf_parsed" /\ bcut = 0) =>
        /\ bres.ok
        /\ SameValue(bres.val, bvalue)
        /\ bres.idx = Len(bprefix) + Len(_encode(bvalue).out)

(***************************************************************************)
(* The text run: a str is written by the text encoder (the same code in    *)
(* bumble/codec.py and bumble_bencoding), other bytes follow it in the     *)
(* buffer, and the text is read back by decode_unicode of bumble_bencoding *)
(* on the bytes, and by _decode_unicode of bumble/codec.py on the str that *)
(* bumble.decode makes of the buffer.                                      *)
(***************************************************************************)

\* _encode_unicode of bumble/codec.py.
_encode_unicode(data) ==
    With(Utf8(data), LAMBDA encoded_data :
        B("u") \o NatText(Len(encoded_data)) \o B(":") \o encoded_data)

\* _decode_unicode of bumble/codec.py: data is a str, a sequence of code
\* points, and so is the slice it returns.
_decode_unicode(data, index) ==
    With(Find(data, Ord(":"), index), LAMBDA colon_index :
        IF colon_index = -1 THEN DErr("ValueError")
        ELSE With(ParseInt(Slice(data, index + 1, colon_index)), LAMBDA length :
                 IF ~length.ok THEN DErr(length.err)
                 ELSE LET start == colon_index + 1
                          end == start + length.int
                      IN  DOk(VStr(Slice(data, start, Max(end, 0))), end)))

\* decode of bumble/__init__.py on a buffer that starts with a text: the
\* buffer is decoded to a str, then _decode dispatches on 'u' at index 0.
bumble_decode(data) ==
    With(Utf8Decode(data), LAMBDA text :
        IF ~text.ok THEN DErr(text.err)
        ELSE _decode_unicode(text.cps, 0))

\* Longest text of a text run, in characters.
MaxText == 3

\* Texts of one-byte (A) and two-byte (e acute) characters.
Texts == SeqsUpTo({65, 233}, MaxText)

TextSuffixes == {<<>>, B("e"), Text(<<"i", "9", "e">>)}

InitText ==
    /\ pc = "text_start"
    /\ utext \in Texts
    /\ usuffix \in TextSuffixes
    /\ uenc = NotRun
    /\ ubres = NotRun
    /\ usres = NotRun
    /\ CodecIdle /\ IntIdle /\ HuffIdle /\ TopIdle /\ RegIdle /\ BufIdle /\ PipeIdle /\ ObjIdle

\* encoded = _encode_unicode(text)
TextEncode ==
    /\ pc = "text_start"
    /\ uenc' = Ok(_encode_unicode(utext))
    /\ pc' = "text_encoded"
    /\ UNCHANGED <<utext, usuffix, ubres, usres, codecVars, intVars, huffVars, topVars, regVars, bufVars, pipeVars, objVars>>

\* text, index = decode_unicode(encoded + suffix, 0)
TextDecodeBytes ==
    /\ pc = "text_encoded"
    /\ ubres' = decode_unicode(uenc.out \o usuffix, 0)
    /\ pc' = "text_bytes"
    /\ UNCHANGED <<utext, usuffix, uenc, usres, codecVars, intVars, huffVars, topVars, regVars, bufVars, pipeVars, objVars>>

\* text, index = _decode_unicode((encoded + suffix).decode(), 0)
TextDecodeStr ==
    /\ pc = "text_encoded"
    /\ usres' = bumble_decode(uenc.out \o usuffix)
    /\ pc' = "text_str"
    /\ UNCHANGED <<utext, usuffix, uenc, ubres, codecVars, intVars, huffVars, topVars, regVars, bufVars, pipeVars, objVars>>

NextText == TextEncode \/ TextDecodeBytes \/ TextDecodeStr

SpecText == InitText /\ [][NextText]_vars

\* C16: the length written after u is the number of UTF-8 bytes of the
\* text, and each decoder returns the text and the index of the first
\* position after it (counted in bytes, or in characters where the buffer
\* is a str), the empty text and texts with multi-byte characters included.
C16_TextFraming ==
    /\ pc # "text_start" =>
          uenc = Ok(B("u") \o NatText(Len(Utf8(utext))) \o B(":") \o Utf8(utext))
    /\ pc = "text_bytes" => ubres = DOk(VStr(utext), Len(uenc.out))
    /\ pc = "text_str" =>
          /\ usres.ok
          /\ usres.val = VStr(utext)
          /\ usres.idx \in {Len(uenc.out), Len(Utf8Decode(uenc.out).cps)}

(***************************************************************************)
(* Codecs and pipelines (utils/abstract_codec.py, utils/pipeline.py, the   *)
(* codecs NULL, HEX and RLE of standard_codecs.py).  A callable is a       *)
(* record: a named function, or the lambda create_methods builds, which    *)
(* holds the two callables it calls in turn.                               *)
(***************************************************************************)

\* A named function as a callable.
Func(name) == [fn |-> name, first |-> <<>>, second |-> <<>>]

\* lambda data: second(first(data))
Lambda(first, second) == [fn |-> "lambda", first |-> <<first>>, second |-> <<second>>]

\* Codec(encode, decode)
Codec(encode_fn, decode_fn) == [encode |-> encode_fn, decode |-> decode_fn]

\* The hex digit binascii.hexlify writes for a nibble.
HexDigit(d) == IF d < 10 THEN 48 + d ELSE 87 + d

\* The nibble of a hex digit, -1 for any other byte.
HexValue(b) ==
    IF b >= 48 /\ b <= 57 THEN b - 48
    ELSE IF b >= 97 /\ b <= 102 THEN b - 87
    ELSE IF b >= 65 /\ b <= 70 THEN b - 55
    ELSE -1

hexlify(data) ==
    Ok(Join([k \in 1..Len(data) |->
                <<HexDigit(data[k] \div 16), HexDigit(data[k] % 16)>>]))

unhexlify(data) ==
    IF Len(data) % 2 = 1 \/ \E k \in 1..Len(data) : HexValue(data[k]) = -1
    THEN Err("binascii.Error")
    ELSE Ok([k \in 1..(Len(data) \div 2) |->
                16 * HexValue(data[2 * k - 1]) + HexValue(data[2 * k])])

\* The for loop of rle_encode over data[1:].
RECURSIVE rle_encode_loop(_, _, _, _)
rle_encode_loop(rest, prev_byte, count, encoded) ==
    IF rest = <<>> THEN encoded \o <<count, prev_byte>>
    ELSE IF Head(rest) = prev_byte
    THEN IF count + 1 = 256
         THEN rle_encode_loop(Tail(rest), prev_byte, 1, encoded \o <<255, prev_byte>>)
         ELSE rle_encode_loop(Tail(rest), prev_byte, count + 1, encoded)
    ELSE rle_encode_loop(Tail(rest), Head(rest), 1, encoded \o <<count, prev_byte>>)

rle_encode(data) ==
    IF data = <<>> THEN Ok(<<>>)
    ELSE Ok(rle_encode_loop(Tail(data), Head(data), 1, <<>>))

\* for count in it: byte = next(it); decoded.extend([byte] * count)
RECURSIVE rle_decode_loop(_, _)
rle_decode_loop(rest, decoded) ==
    IF rest = <<>> THEN Ok(decoded)
    ELSE IF Len(rest) = 1 THEN Err("StopIteration")
    ELSE rle_decode_loop(Tail(Tail(rest)),
                         decoded \o [k \in 1..rest[1] |-> rest[2]])

rle_decode(data) == rle_decode_loop(data, <<>>)

\* f(data): the call of a callable; an exception raised by the inner call
\* of a lambda passes through the outer one.
RECURSIVE Call(_, _)
Call(f, data) ==
    IF ~data.ok THEN data
    ELSE CASE f.fn = "null_encode" -> Ok(data.out)
           [] f.fn = "null_decode" -> Ok(data.out)
           [] f.fn = "hexlify" -> hexlify(data.out)
           [] f.fn = "unhexlify" -> unhexlify(data.out)
           [] f.fn = "rle_encode" -> rle_encode(data.out)
           [] f.fn = "rle_decode" -> rle_decode(data.out)
           [] f.fn = "lambda" -> Call(f.second[1], Call(f.first[1], data))

\* The members NULL, HEX and RLE of Codecs.
Codecs(name) ==
    CASE name = "NULL" -> Codec(Func("null_encode"), Func("null_decode"))
      [] name = "HEX" -> Codec(Func("hexlify"), Func("unhexlify"))
      [] name = "RLE" -> Codec(Func("rle_encode"), Func("rle_decode"))

\* A composition whose decode runs the two decodes in the order of the encodes.
create_methods_same_order(self, other) ==
    Codec(Lambda(self.encode, other.encode), Lambda(self.decode, other.decode))

\* encode = lambda data: other.encode(self.encode(data))
\* decode = lambda data: self.decode(other.decode(data))
create_methods(self, other) ==
    Codec(Lambda(self.encode, other.encode), Lambda(other.decode, self.decode))

\* Codec.__or__
codec_or(self, other) == create_methods(self, other)

\* Pipeline.encode, optimize=True.
Pipeline_encode(codec, data) ==
    With(encode(data), LAMBDA encoded :
        IF ~encoded.ok THEN encoded ELSE Call(codec.encode, encoded))

\* Pipeline.decode
Pipeline_decode(codec, data) ==
    With(Call(codec.decode, Ok(data)), LAMBDA decoded :
        IF ~decoded.ok THEN decoded ELSE decode(decoded.out))

\* Longest byte string handed to a composed codec.
MaxBytes == 2

CodecNames == {"NULL", "HEX", "RLE"}

\* Bytes of the inputs: small enough for a byte to be the count of a run
\* three run-length decodes deep.
PipeBytes == {1, 2, 3}

PipeValues == {VNone, VInt(10), VList(<<VStr(NameA), VBytes(B("e"))>>)}

InitPipe ==
    /\ pc = "pipe_start"
    /\ kcodecs \in CodecNames \X CodecNames \X CodecNames
    /\ kx \in SeqsUpTo(PipeBytes, MaxBytes)
    /\ kvalue \in PipeValues
    /\ kleft = NotRun
    /\ kright = NotRun
    /\ kenc = NotRun
    /\ kdec = NotRun
    /\ kout = NotRun
    /\ kback = NotRun
    /\ CodecIdle /\ IntIdle /\ HuffIdle /\ TopIdle /\ RegIdle /\ BufIdle /\ TextIdle /\ ObjIdle

\* left = (a | b) | c; right = a | (b | c)
Compose ==
    /\ pc = "pipe_start"
    /\ kleft' = Ok(codec_or(codec_or(Codecs(kcodecs[1]), Codecs(kcodecs[2])),
                            Codecs(kcodecs[3])))
    /\ kright' = Ok(codec_or(Codecs(kcodecs[1]),
                             codec_or(Codecs(kcodecs[2]), Codecs(kcodecs[3]))))
    /\ pc' = "pipe_composed"
    /\ UNCHANGED <<kcodecs, kx, kvalue, kenc, kdec, kout, kback, codecVars, intVars, huffVars, topVars, regVars, bufVars, textVars, objVars>>

\* left.encode(x), right.encode(x)
ComposedEncode ==
    /\ pc = "pipe_composed"
    /\ kenc' = Ok(<<Call(kleft.out.encode, Ok(kx)), Call(kright.out.encode, Ok(kx))>>)
    /\ pc' = "pipe_encoded"
    /\ UNCHANGED <<kcodecs, kx, kvalue, kleft, kright, kdec, kout, kback, codecVars, intVars, huffVars, topVars, regVars, bufVars, textVars, objVars>>

\* left.decode(y), right.decode(y), y what left.encode returned
ComposedDecode ==
    /\ pc = "pipe_encoded"
    /\ kenc.out[1].ok
    /\ kdec' = Ok(<<Call(kleft.out.decode, kenc.out[1]), Call(kright.out.decode, kenc.out[1])>>)
    /\ pc' = "pipe_decoded"
    /\ UNCHANGED <<kcodecs, kx, kvalue, kleft, kright, kenc, kout, kback, codecVars, intVars, huffVars, topVars, regVars, bufVars, textVars, objVars>>

\* left.decode(x), right.decode(x): the decode of bytes no encode returned
ComposedDecodeInput ==
    /\ pc = "pipe_composed"
    /\ kdec' = Ok(<<Call(kleft.out.decode, Ok(kx)), Call(kright.out.decode, Ok(kx))>>)
    /\ pc' = "pipe_undone"
    /\ UNCHANGED <<kcodecs, kx, kvalue, kleft, kright, kenc, kout, kback, codecVars, intVars, huffVars, topVars, regVars, bufVars, textVars, objVars>>

\* Pipeline(left).encode(value)
PipelineEncode ==
    /\ pc = "pipe_composed"
    /\ kout' = Pipeline_encode(kleft.out, kvalue)
    /\ pc' = "pipeline_encoded"
    /\ UNCHANGED <<kcodecs, kx, kvalue, kleft, kright, kenc, kdec, kback, codecVars, intVars, huffVars, topVars, regVars, bufVars, textVars, objVars>>

\* Pipeline(left).decode(encoded)
PipelineDecode ==
    /\ pc = "pipeline_encoded"
    /\ kout.ok
    /\ kback' = Pipeline_decode(kleft.out, kout.out)
    /\ pc' = "pipeline_decoded"
    /\ UNCHANGED <<kcodecs, kx, kvalue, kleft, kright, kenc, kdec, kout, codecVars, intVars, huffVars, topVars, regVars, bufVars, textVars, objVars>>

NextPipe ==
    \/ Compose
    \/ ComposedEncode
    \/ ComposedDecode
    \/ ComposedDecodeInput
    \/ PipelineEncode
    \/ PipelineDecode

SpecPipe == InitPipe /\ [][NextPipe]_vars

\* codec.encode(data) and codec.decode(data) of the codec of a name.
EncodeWith(name, data) == Call(Codecs(name).encode, data)
DecodeWith(name, data) == Call(Codecs(name).decode, data)

\* C17: (a | b).encode(x) is b.encode(a.encode(x)) and (a | b).decode(y) is
\* a.decode(b.decode(y)), an exception of either step included; (a | b) | c
\* and a | (b | c) encode and decode alike; the decode of a composition
\* returns the bytes its encode was given; a Pipeline on the composition
\* returns what decode(encode(value)) returns.
C17_Composition ==
    /\ pc # "pipe_start" =>
          \A x \in {Ok(kx)} \cup (IF pc = "pipe_decoded" THEN {kenc.out[1]} ELSE {}) :
              With(codec_or(Codecs(kcodecs[1]), Codecs(kcodecs[2])), LAMBDA ab :
                  /\ Call(ab.encode, x) = EncodeWith(kcodecs[2], EncodeWith(kcodecs[1], x))
                  /\ Call(ab.decode, x) = DecodeWith(kcodecs[1], DecodeWith(kcodecs[2], x)))
    /\ pc = "pipe_encoded" =>
          /\ kenc.out[1] = kenc.out[2]
          /\ kenc.out[1] = EncodeWith(kcodecs[3], EncodeWith(kcodecs[2],
                               EncodeWith(kcodecs[1], Ok(kx))))
    /\ pc = "pipe_undone" =>
          /\ kdec.out[1] = kdec.out[2]
          /\ kdec.out[1] = DecodeWith(kcodecs[1], DecodeWith(kcodecs[2],
                               DecodeWith(kcodecs[3], Ok(kx))))
    /\ pc = "pipe_decoded" =>
          /\ kdec.out[1] = Ok(kx)
          /\ kdec.out[2] = Ok(kx)
    /\ pc = "pipeline_decoded" => kback = decode(encode(kvalue).out)

\* A hex-then-run-length-then-hex composition has encoded two equal bytes to
\* sixteen, which the codecs in another order do not, and decoded them back.
C17_Witness ==
    /\ pc = "pipe_decoded"
    /\ kcodecs = <<"HEX", "RLE", "HEX">>
    /\ kx = <<3, 3>>
    /\ kenc.out[1] = Ok(<<48, 49, 51, 48, 48, 49, 51, 51, 48, 49, 51, 48, 48, 49, 51, 51>>)
    /\ EncodeWith("HEX", EncodeWith("HEX", EncodeWith("RLE", Ok(kx)))) # kenc.out[1]
    /\ kdec.out[1] = Ok(kx)

\* C19: decode(encode(nt)) of a named tuple nt is a named tuple of the same
\* type name, with the same field names in the order nt declares them and
\* the same value at every position.
C19_NamedTupleRebuilt ==
    (pc = "decoded" /\ value.tag = "namedtuple") =>
        /\ result.ok
        /\ result.val.tag = "namedtuple"
        /\ result.val.cls = value.cls
        /\ result.val.fields = value.fields
        /\ result.val.vals = value.vals

\* The stream is n >= 1 copies of one byte value.
SingleSymbol == stream # <<>> /\ \A k \in 1..Len(stream) : stream[k] = stream[1]

\* C20: for a stream of n >= 1 copies of one byte value the optimizer gives
\* that byte a code of at least one bit, and decoding its output returns all
\* n bytes.
C20_SingleSymbol ==
    /\ (pc = "huff_deflated" /\ SingleSymbol) =>
          /\ packed.ok
          /\ \A a \in heap : CodeOf(a.pairs, stream[1]) # <<>>
    /\ (pc = "huff_inflated" /\ SingleSymbol) => restored = Ok(stream)

\* {symbol: code for symbol, code in huffman_tree[1:]}
_generate_huffman_codes(huffman_tree) == huffman_tree.pairs

\* C21: for a code table whose codes are 1 to 255 bits long, _decode_mapping
\* of the header _encode_mapping wrote returns the same byte -> bits table.
C21_HeaderRoundTrip ==
    (pc = "huff_deflated" /\ packed.ok) =>
        \A root \in heap :
            (\A k \in 1..Len(_generate_huffman_codes(root)) :
                 Len(_generate_huffman_codes(root)[k][2]) \in 1..255) =>
                With(_decode_mapping(_split_header_and_data(packed.out)[1]), LAMBDA table :
                    /\ table.ok
                    /\ {table.codes[k] : k \in 1..Len(table.codes)}
                         = {_generate_huffman_codes(root)[k] : k \in 1..Len(_generate_huffman_codes(root))})

\* The bits _encode_data joins for the stream: the code of every byte in turn.
coded_bits ==
    Join([k \in 1..Len(stream) |->
             CodeOf(_generate_huffman_codes(CHOOSE root \in heap : TRUE), stream[k])])

\* The bytes of packed after the header: the padding byte, then the payload.
packed_data == _split_header_and_data(packed.out)[2]

\* C22 as stated: the padding byte is in 0..7, counts the zero bits appended
\* to fill the last payload byte, 0 when the coded bits already fill whole
\* bytes, and the decoder reads 8 * payload_len - padding payload bits.
C22_PaddingZeroToSeven ==
    (pc = "huff_deflated" /\ packed.ok) =>
        /\ Head(packed_data) \in 0..7
        /\ Len(coded_bits) % 8 = 0 => Head(packed_data) = 0
        /\ 8 * Len(Tail(packed_data)) = Len(coded_bits) + Head(packed_data)
        /\ Len(payload_bits(packed_data)) = 8 * Len(Tail(packed_data)) - Head(packed_data)

\* C22, amended: the padding byte is in 1..8 and is 8 - (coded bits mod 8),
\* the number of zero bits appended after the coded bits, a whole zero byte
\* when the coded bits already fill whole bytes; the decoder reads exactly
\* the 8 * payload_len - padding coded bits.
C22_PaddingOneToEight ==
    (pc = "huff_deflated" /\ packed.ok) =>
        /\ Head(packed_data) \in 1..8
        /\ Head(packed_data) = 8 - (Len(coded_bits) % 8)
        /\ BitString(Tail(packed_data))
             = coded_bits \o [k \in 1..Head(packed_data) |-> 0]
        /\ Len(payload_bits(packed_data)) = 8 * Len(Tail(packed_data)) - Head(packed_data)
        /\ payload_bits(packed_data) = coded_bits

\* Four distinct bytes have been coded in eight bits, which fill one byte,
\* and a second payload byte of eight zero bits follows it.
C22_Witness ==
    /\ pc = "huff_deflated"
    /\ packed.ok
    /\ Len(stream) = 4
    /\ Len(coded_bits) = 8
    /\ Head(packed_data) = 8
    /\ Len(Tail(packed_data)) = 2

\* The distinct byte values of the stream.
Distincts == {stream[k] : k \in 1..Len(stream)}

\* a is the start of b.
IsPrefix(a, b) == Len(a) <= Len(b) /\ SubSeq(b, 1, Len(a)) = a

\* C23: for a stream of at least two distinct byte values the code table
\* gives every occurring byte, and no other, one non-empty code, and no
\* code of one byte is a prefix of (or equal to) the code of another.
C23_PrefixCode ==
    (pc = "huff_deflated" /\ Cardinality(Distincts) >= 2) =>
        /\ packed.ok
        /\ \A root \in heap :
              With(_generate_huffman_codes(root), LAMBDA codes :
                  /\ {codes[k][1] : k \in 1..Len(codes)} = Distincts
                  /\ Len(codes) = Cardinality(Distincts)
                  /\ \A k \in 1..Len(codes) : codes[k][2] # <<>>
                  /\ \A j, k \in 1..Len(codes) :
                        j # k => ~IsPrefix(codes[j][2], codes[k][2]))

\* A stream of three distinct bytes has a table with a one-bit and a two-bit
\* code.
C23_Witness ==
    /\ pc = "huff_deflated"
    /\ Cardinality(Distincts) = 3
    /\ \E root \in heap :
          {Len(root.pairs[k][2]) : k \in 1..Len(root.pairs)} = {1, 2}

\* The sum of the weights of the entries of a heap.
RECURSIVE TotalWeight(_)
TotalWeight(h) ==
    IF h = {} THEN 0
    ELSE With(CHOOSE a \in h : TRUE, LAMBDA a : a.weight + TotalWeight(h \ {a}))

\* The symbols of a heap entry, one per pair.
SymbolsOf(entry) == [k \in 1..Len(entry.pairs) |-> entry.pairs[k][1]]

\* One pass of the loop took two entries lo and hi that no other entry is
\* lighter than, and put one entry of their joint weight and pairs in their
\* place.
PopsTwoLowest ==
    \E lo, hi \in heap :
        /\ lo # hi
        /\ \A other \in heap \ {lo, hi} :
              other.weight >= lo.weight /\ other.weight >= hi.weight
        /\ lo.weight <= hi.weight
        /\ \E joined \in heap' :
              /\ heap' = (heap \ {lo, hi}) \cup {joined}
              /\ joined.weight = lo.weight + hi.weight
              /\ SymbolsOf(joined) = SymbolsOf(lo) \o SymbolsOf(hi)

\* C24: for a non-empty stream of k distinct byte values, every pass of the
\* merge loop pops two lowest-weight entries; the weights in the queue add up
\* to the stream's length before and after every pass; the queue holds k less
\* the number of passes entries, so the loop ends after exactly k - 1 passes
\* with one root, which holds each distinct byte exactly once.
C24_MergeLoop ==
    /\ [](  (stream # <<>> /\ pc \in {"huff_build", "huff_deflated"}) =>
               /\ TotalWeight(heap) = Len(stream)
               /\ Cardinality(heap) = Cardinality(Distincts) - merges)
    /\ [](  (stream # <<>> /\ pc = "huff_deflated") =>
               /\ merges = Cardinality(Distincts) - 1
               /\ Cardinality(heap) = 1
               /\ \A root \in heap :
                     /\ Len(root.pairs) = Cardinality(Distincts)
                     /\ {root.pairs[k][1] : k \in 1..Len(root.pairs)} = Distincts)
    /\ [][(stream # <<>> /\ pc = "huff_build" /\ pc' = "huff_build") => PopsTwoLowest]_vars
    /\ (pc = "huff_build") ~> (pc = "huff_deflated")

\* The loop has ended after three passes over a stream of four distinct
\* bytes.
C24_Witness ==
    /\ pc = "huff_deflated"
    /\ merges = 3
    /\ Cardinality(Distincts) = 4
    /\ Cardinality(heap) = 1

\* The step HuffFinish takes, told by its guard and the position it leaves.
Returns == pc = "huff_build" /\ Cardinality(heap) <= 1 /\ pc' = "huff_deflated"

\* The scheduling of deflate_bytes: a call that has started runs on, pass
\* after pass, to its return.
SpecHuffRuns == SpecHuff /\ WF_vars(HuffStart) /\ WF_vars(HuffMerge) /\ WF_pc(Returns)

\* C25: in the registry no two namespace prefixes share a token, and the
\* reverse table has one entry per forward entry, each token leading back
\* to the prefix it was given to.
C25_RegistryBijection ==
    /\ \A j, k \in 1..Len(rmapping) :
          j # k => /\ rmapping[j][1] # rmapping[k][1]
                   /\ rmapping[j][2] # rmapping[k][2]
    /\ With(reverse_symbols(rmapping), LAMBDA reversed :
          /\ Len(reversed) = Len(rmapping)
          /\ \A k \in 1..Len(rmapping) :
                \E j \in 1..Len(reversed) :
                    reversed[j] = <<rmapping[k][2], rmapping[k][1]>>)

(***************************************************************************)
(* Objects in bumble/codec.py: _encode on the variants an object run       *)
(* holds, and _decode on the str of its bytes.                             *)
(***************************************************************************)

\* MODULE_MAPPING of a host whose built-in modules are _abc and _ast.
HostMapping == map_names({ModAbc, ModAst}).seq

RECURSIVE codec_encode(_)

\* b"".join(_encode(item) for item in data)
RECURSIVE codec_encode_items(_)
codec_encode_items(items) ==
    IF items = <<>> THEN <<>>
    ELSE codec_encode(Head(items)) \o codec_encode_items(Tail(items))

\* b"".join(_encode_bytes(key.encode('utf-8')) + _encode(value) for ...)
RECURSIVE codec_encode_pairs(_)
codec_encode_pairs(items) ==
    IF items = <<>> THEN <<>>
    ELSE encode_bytes(Utf8(Head(items).items[1].cps))
         \o codec_encode(Head(items).items[2])
         \o codec_encode_pairs(Tail(items))

\* _encode_dict of bumble/codec.py, on str keys.
codec_encode_dict(data) ==
    IF data = <<>> THEN B("D")
    ELSE B("d") \o codec_encode_pairs(sorted(dict_items(data)).seq) \o B("e")

\* _encode_object, for an instance with a __dict__ and no __slots__.
codec_encode_object(data) ==
    B("o") \o _encode_unicode(encode_import_path(data.opath, HostMapping))
           \o codec_encode_dict(data.attrs)

\* _encode of bumble/codec.py on None, small ints, bytes, str, lists, tuples
\* and objects.
codec_encode(data) ==
    CASE data.tag = "none" -> B("n")
      [] data.tag = "int" -> _encode_int(data.i).out
      [] data.tag = "bytes" -> encode_bytes(data.bs)
      [] data.tag = "str" -> _encode_unicode(data.cps)
      [] data.tag = "list" ->
            IF data.items = <<>> THEN B("L")
            ELSE B("l") \o codec_encode_items(data.items) \o B("e")
      [] data.tag = "tuple" ->
            IF data.items = <<>> THEN B("T")
            ELSE B("t") \o codec_encode_items(data.items) \o B("e")
      [] data.tag = "object" -> codec_encode_object(data)

\* _decode_bytes of bumble/codec.py, on a str.
_decode_bytes(data, index) ==
    With(Find(data, Ord(":"), index), LAMBDA colon_index :
        IF colon_index = -1 THEN DErr("ValueError")
        ELSE With(ParseInt(Slice(data, index, colon_index)), LAMBDA length :
                 IF ~length.ok THEN DErr(length.err)
                 ELSE With(colon_index + 1 + length.int, LAMBDA end :
                          DOk(VBytes(Utf8(Slice(data, colon_index + 1, Max(end, 0)))),
                              end))))

\* _decode_bool
_decode_bool(data, index) ==
    IF Slice(data, index, index + 2) = B("b") \o <<Ord("0") + 1>> THEN DOk(VBool(TRUE), index + 2)
    ELSE IF Slice(data, index, index + 2) = B("b") \o B("0") THEN DOk(VBool(FALSE), index + 2)
    ELSE DErr("BumbleDecodeException")

RECURSIVE codec_decode(_, _)

\* The while loop of _decode_collection: data[index] raises IndexError past
\* the end of the str.
RECURSIVE codec_collection_loop(_, _, _, _)
codec_collection_loop(data, index, type_char, entries) ==
    IF index >= Len(data) THEN DErr("IndexError")
    ELSE IF data[index + 1] = Ord("e") THEN DOk(entries, index)
    ELSE IF type_char = B("d")
    THEN With(_decode_bytes(data, index), LAMBDA key :
             IF ~key.ok THEN key
             ELSE With(codec_decode(data, key.idx), LAMBDA val :
                      IF ~val.ok THEN val
                      ELSE With(Utf8Decode(key.val.bs), LAMBDA name :
                               IF ~name.ok THEN DErr(name.err)
                               ELSE codec_collection_loop(data, val.idx, type_char,
                                        dict_setitem(entries, VStr(name.cps), val.val)))))
    ELSE With(codec_decode(data, index), LAMBDA item :
             IF ~item.ok THEN item
             ELSE IF type_char = B("s")
             THEN IF ~Hashable(item.val) THEN DErr("TypeError")
                  ELSE codec_collection_loop(data, item.idx, type_char,
                                             set_add(entries, item.val))
             ELSE codec_collection_loop(data, item.idx, type_char,
                                        Append(entries, item.val)))

\* _decode_collection of bumble/codec.py: type_char is what the caller
\* passes, not the character at index.
codec_decode_collection(data, index, type_char) ==
    With(initialize_collection(type_char), LAMBDA kind :
        IF type_char \in {B("L"), B("D"), B("S"), B("T")}
        THEN DOk(Container(kind, <<>>), index + 1)
        ELSE With(codec_collection_loop(data, index + 1, type_char, <<>>), LAMBDA body :
                 IF ~body.ok THEN body
                 ELSE DOk(finalize_collection(kind, body.val, type_char),
                          body.idx + 1)))

\* _decode_object: the attribute map is read as _decode_collection(data,
\* index, 'd'); the blank instance takes the decoded attributes.
codec_decode_object(data, index) ==
    With(_decode_unicode(data, index + 1), LAMBDA import_path :
        IF ~import_path.ok THEN import_path
        ELSE With(codec_decode_collection(data, import_path.idx, B("d")), LAMBDA attributes :
                 IF ~attributes.ok THEN attributes
                 ELSE With(decode_import_path(import_path.val.cps, HostMapping), LAMBDA path :
                     With(import_class(path), LAMBDA cls :
                          IF ~cls.ok THEN DErr(cls.err)
                          ELSE DOk(VObject(path, attributes.val.pairs),
                                   attributes.idx)))))

\* _decode_enum
codec_decode_enum(data, index) ==
    With(_decode_unicode(data, index + 1), LAMBDA import_path :
        IF ~import_path.ok THEN import_path
        ELSE With(_decode_unicode(data, import_path.idx), LAMBDA name :
                 IF ~name.ok THEN name
                 ELSE With(decode_import_path(import_path.val.cps, HostMapping), LAMBDA path :
                     With(import_class(path), LAMBDA cls :
                          IF ~cls.ok THEN DErr(cls.err)
                          ELSE IF name.val.cps \notin cls.members THEN DErr("KeyError")
                          ELSE DOk(VEnum(path, name.val.cps), name.idx)))))

\* _decode of bumble/codec.py.  Floats, complex numbers and arrays are not
\* in an object run: NotImplemented stands for their decoders.
codec_decode(data, index) ==
    IF index >= Len(data) THEN DErr("IndexError")
    ELSE With(data[index + 1], LAMBDA char :
        CASE char = Ord("b") -> _decode_bool(data, index)
          [] char = Ord("i") ->
                With(_decode_int(data, index), LAMBDA number :
                    IF ~number.ok THEN number ELSE DOk(VInt(number.val), number.idx))
          [] char \in {Ord("f"), Ord("c"), Ord("a")} -> DErr("NotImplemented")
          [] char = Ord("u") -> _decode_unicode(data, index)
          [] IsDigitByte(char) -> _decode_bytes(data, index)
          [] char \in {Ord("l"), Ord("d"), Ord("s"), Ord("t"),
                       Ord("L"), Ord("D"), Ord("S"), Ord("T")} ->
                codec_decode_collection(data, index, <<char>>)
          [] char = Ord("o") -> codec_decode_object(data, index)
          [] char = Ord("n") -> DOk(VNone, index + 1)
          [] char = Ord("e") -> codec_decode_enum(data, index)
          [] OTHER -> DErr("BumbleDecodeException"))

\* The instances an object run encodes: one with no attribute, one with one.
BlankObject == VObject(PathC, <<>>)
ObjInstances == {BlankObject, VObject(PathC, << <<VStr(NameA), VInt(2)>> >>)}

\* The values that stand next to an instance in a collection.
ObjNeighbours == {VInt(2), VNone, VBytes(B("x")), VStr(NameA), VList(<<>>)}

\* Most neighbours that follow an instance in its collection.
MaxAfter == 2

ObjValues ==
    UNION {{o, VList(<<o>>), VTuple(<<o>>)}
           \cup {VList(<<x, o>>) : x \in ObjNeighbours}
           \cup {VList(<<VList(<<o>>), x>>) : x \in ObjNeighbours}
           \cup {VList(<<o>> \o xs) : xs \in SeqsUpTo(ObjNeighbours, MaxAfter) \ {<<>>}} :
           o \in ObjInstances}

InitObj ==
    /\ pc = "obj_start"
    /\ ovalue \in ObjValues
    /\ oenc = NotRun
    /\ ores = NotRun
    /\ CodecIdle /\ IntIdle /\ HuffIdle /\ TopIdle /\ RegIdle /\ BufIdle /\ TextIdle /\ PipeIdle

\* encoded = _encode(value)
ObjEncode ==
    /\ pc = "obj_start"
    /\ oenc' = Ok(codec_encode(ovalue))
    /\ pc' = "obj_encoded"
    /\ UNCHANGED <<ovalue, ores, codecVars, intVars, huffVars, topVars, regVars, bufVars, textVars, pipeVars>>

\* result, index = _decode(encoded.decode(), 0)
ObjDecode ==
    /\ pc = "obj_encoded"
    /\ ores' = With(Utf8Decode(oenc.out), LAMBDA text :
                   IF ~text.ok THEN DErr(text.err) ELSE codec_decode(text.cps, 0))
    /\ pc' = "obj_decoded"
    /\ UNCHANGED <<ovalue, oenc, codecVars, intVars, huffVars, topVars, regVars, bufVars, textVars, pipeVars>>

NextObj == ObjEncode \/ ObjDecode

SpecObj == InitObj /\ [][NextObj]_vars

\* The value is or holds the instance with no attribute.
RECURSIVE HoldsBlank(_)
HoldsBlank(v) ==
    \/ v = BlankObject
    \/ v.tag \in {"list", "tuple"} /\ \E k \in 1..Len(v.items) : HoldsBlank(v.items[k])

\* C26: an object with no attribute, written o + type reference + D, decodes
\* to a blank instance of its type with no attribute, the cursor exactly
\* past the D: alone the cursor is the end of the bytes, and in a collection
\* the values that follow the object are decoded unchanged.
C26_BlankObject ==
    (pc = "obj_decoded" /\ HoldsBlank(ovalue)) =>
        /\ ores.ok
        /\ ores.val = ovalue
        /\ ores.idx = Len(oenc.out)

(***************************************************************************)
(* Dispatch of the decoder on what the encoder wrote                       *)
(* (bumble_bencoding/codec/decoder.py, decode; encoder.py, _encode).       *)
(***************************************************************************)

\* The branch of decode that the bytes at index select: the tests of the
\* if/elif chain, in its order.
lookahead(data, index) ==
    IF data = <<>> THEN "BumbleDecodeException"
    ELSE IF IsDigit(At(data, index)) THEN "decode_bytes"
    ELSE IF StartsWith(data, index, B("y")) THEN "decode_type"
    ELSE IF StartsWith(data, index, B("n") \o B("t")) THEN "decode_named_tuple"
    ELSE IF StartsWith(data, index, B("+")) \/ StartsWith(data, index, B("-"))
    THEN "bool"
    ELSE IF StartsWith(data, index, B("i")) THEN "decode_int"
    ELSE IF StartsWith(data, index, B("f")) THEN "decode_float"
    ELSE IF StartsWith(data, index, B("c")) THEN "decode_complex"
    ELSE IF StartsWith(data, index, B("u")) THEN "decode_unicode"
    ELSE IF \E ch \in {"l", "d", "s", "t", "L", "D", "S", "T"} :
                StartsWith(data, index, B(ch))
    THEN "decode_collection"
    ELSE IF StartsWith(data, index, B("o")) THEN "decode_object"
    ELSE IF StartsWith(data, index, B("n")) THEN "None"
    ELSE IF StartsWith(data, index, B("a")) THEN "decode_array"
    ELSE IF StartsWith(data, index, B("e")) THEN "decode_enum"
    ELSE "BumbleDecodeException"

\* The branch of decode that reads what _encode writes for a value: the
\* decoder of the encoder that _encode's match statement selects.
written_for(data) ==
    CASE data.tag = "type" -> "decode_type"
      [] data.tag = "enum" -> "decode_enum"
      [] data.tag = "array" -> "decode_array"
      [] data.tag = "bool" -> "bool"
      [] data.tag = "complex" -> "decode_complex"
      [] data.tag = "int" -> "decode_int"
      [] data.tag = "float" -> "decode_float"
      [] data.tag = "bytes" -> "decode_bytes"
      [] data.tag = "str" -> "decode_unicode"
      [] data.tag \in {"list", "dict", "set", "tuple"} -> "decode_collection"
      [] data.tag = "namedtuple" -> "decode_named_tuple"
      [] data.tag = "none" -> "None"
      [] data.tag = "object" -> "decode_object"

\* Where the encoder started writing item k of a non-empty list or tuple
\* whose encoding starts at index 0: after the tag and the items before it.
RECURSIVE item_start(_, _)
item_start(items, k) ==
    IF k = 1 THEN 1
    ELSE item_start(items, k - 1) + Len(_encode(items[k - 1]).out)

\* A Null item immediately followed by a non-empty tuple item.
NullThenTuple(v) ==
    /\ v.tag \in {"list", "tuple"}
    /\ \E k \in 1..(Len(v.items) - 1) :
          /\ v.items[k] = VNone
          /\ v.items[k + 1].tag = "tuple"
          /\ v.items[k + 1].items # <<>>

\* C27: at every position where the encoder started writing an item of a
\* list or tuple, the decoder's lookahead selects the variant the encoder
\* wrote there; a Null followed by a non-empty tuple is decoded as Null then
\* the tuple, not as a named tuple.
C27_Dispatch ==
    /\ (pc = "encoded" /\ raw.ok /\ value.tag \in {"list", "tuple"}) =>
          \A k \in 1..Len(value.items) :
              lookahead(raw.out, item_start(value.items, k))
                  = written_for(value.items[k])
    /\ (pc = "decoded" /\ NullThenTuple(value)) =>
          result.ok /\ SameValue(result.val, value)

(***************************************************************************)
(* Floats on the wire (bumble_bencoding/codec/encoder.py, encode_float;    *)
(* decoder.py, decode_float).                                              *)
(***************************************************************************)

\* The floats the encoder wrote for a value that is a float or a list, each
\* with the index where its f tag stands.
FloatStarts(v) ==
    IF v.tag = "float" THEN {<<v.f, 0>>}
    ELSE IF v.tag = "list"
    THEN {<<v.items[k].f, item_start(v.items, k)>> :
             k \in {j \in 1..Len(v.items) : v.items[j].tag = "float"}}
    ELSE {}

\* data[start + 1:data.index(b'e', start)]: what stands between a tag and
\* the first e after it.
body_at(data, start) == Slice(data, start + 1, Find(data, Ord("e"), start))

\* C30: +Infinity, -Infinity and NaN are written f+e, f-e and f?e and decode
\* to the same sentinel; the body of every other float is a decimal text
\* without a lowercase e, so the first e after the f tag is the float's
\* terminator and the text before it is the float's.
C30_FloatSentinels ==
    (pc \in {"encoded", "decoded"} /\ raw.ok) =>
        /\ \A p \in FloatStarts(value) :
              /\ raw.out[p[2] + 1] = Ord("f")
              /\ p[1].fk = "inf" <=> body_at(raw.out, p[2]) = B("+")
              /\ p[1].fk = "ninf" <=> body_at(raw.out, p[2]) = B("-")
              /\ p[1].fk = "nan" <=> body_at(raw.out, p[2]) = B("?")
              /\ p[1].fk \in {"fin", "exp"} =>
                    /\ Decimal(body_at(raw.out, p[2])).ok
                    /\ decimal_float(Decimal(body_at(raw.out, p[2]))) = p[1]
              /\ decode_float(raw.out, p[2])
                    = DOk(p[1], p[2] + Len(encode_float(p[1])))
        /\ (pc = "decoded" /\ value.tag = "float") =>
              result = DOk(value, Len(raw.out))

\* -Infinity and 1.5e-07 in one list: f-e, then f1.5E-7e.
C30_Witness ==
    /\ pc = "decoded"
    /\ value = VList(<<VFloat("ninf", 0), [tag |-> "float", f |-> FltExp(15, -8)]>>)
    /\ body_at(raw.out, 1) = B("-")
    /\ Find(raw.out, Ord("E"), 0) = 8
    /\ Len(raw.out) = 13
    /\ result = DOk(value, 13)
=============================================================================
